---- MODULE Spec2Model ----
(***************************************************************************)
(* Model of the Notion course API: the block builders (block-builders.ts), *)
(* the course compiler and HTTP handlers (server.ts) and the page          *)
(* materializer (notion-api.ts).                                           *)
(*                                                                         *)
(* Strings are sequences of atoms <<w, n>>: an atom stands for n           *)
(* consecutive characters identified by w.  Markup characters, spaces,     *)
(* punctuation and line breaks are atoms of one character; a word or a     *)
(* long filler is one atom of n plain characters.  Cutting an atom after   *)
(* k characters gives <<w, k>>.                                            *)
(*                                                                         *)
(* A JavaScript object is a record holding only the fields that are        *)
(* present; null is the record Null, and an exception that leaves a        *)
(* function is the record Throw(message).                                  *)
(***************************************************************************)
EXTENDS Integers, Sequences, FiniteSets, TLC

VARIABLES
    call,       \* pure-function harness: the invocation under study
    ret,        \* pure-function harness: its result, NotYet before the call
    req,        \* server: the HTTP request being handled
    pc,         \* server: position of the handler
    chunks,     \* NotionAPI.appendBlocks: the batches still to send and sent
    ci,         \* NotionAPI.appendBlocks: index of the batch being sent
    calls,      \* remote service: every create/append call issued, in order
    inflight,   \* remote service: indices (in calls) of the calls not yet answered
    settled,    \* outcome of the awaited remote call, for the resuming handler
    page,       \* remote service: blocks held by the target page
    responses,  \* HTTP responses written for the request
    blocks,     \* NotionAPI.getPageBlocks: the blocks fetched so far
    cursor      \* NotionAPI.getPageBlocks: where the next request starts

vars == <<call, ret, req, pc, chunks, ci, calls, inflight, settled, page, responses,
          blocks, cursor>>

(***************************************************************************)
(* JavaScript values                                                       *)
(***************************************************************************)
Null == [null |-> TRUE]

Throw(message) == [throw |-> message]

IsThrow(v) == "throw" \in DOMAIN v

NoFields == [x \in {} |-> x]

\* a value that is not an object at all
Undefined == [undefined |-> TRUE]

\* reading a property of undefined or null
TypeErrorOn(property) ==
    Throw("TypeError: Cannot read properties of undefined (reading '" \o property \o "')")

Has(obj, f) == f \in DOMAIN obj

(***************************************************************************)
(* Strings                                                                 *)
(***************************************************************************)
Ch(c) == <<c, 1>>

W(w, n) == <<w, n>>

Min(S) == CHOOSE x \in S : \A y \in S : x <= y

RECURSIVE StrLen(_)
StrLen(s) == IF s = <<>> THEN 0 ELSE Head(s)[2] + StrLen(Tail(s))

IsSpace(a) == a[1] \in {" ", "\n"}

RECURSIVE TrimStart(_)
TrimStart(s) ==
    IF s = <<>> THEN <<>>
    ELSE IF IsSpace(Head(s)) THEN TrimStart(Tail(s)) ELSE s

RECURSIVE TrimEnd(_)
TrimEnd(s) ==
    IF s = <<>> THEN <<>>
    ELSE IF IsSpace(s[Len(s)]) THEN TrimEnd(SubSeq(s, 1, Len(s) - 1)) ELSE s

\* String.prototype.trim
Trim(s) == TrimEnd(TrimStart(s))

\* String.prototype.substring(0, k)
RECURSIVE Substring(_, _)
Substring(s, k) ==
    IF k <= 0 \/ s = <<>> THEN <<>>
    ELSE IF Head(s)[2] <= k
         THEN <<Head(s)>> \o Substring(Tail(s), k - Head(s)[2])
         ELSE << <<Head(s)[1], k>> >>

\* String.prototype.slice(a, b) on atom offsets (0-based, b exclusive)
Slice(s, a, b) == SubSeq(s, a + 1, b)

\* the atoms d occur in s from (1-based) position i on
At(s, i, d) == i >= 1 /\ i + Len(d) - 1 <= Len(s) /\ SubSeq(s, i, i + Len(d) - 1) = d

StartsWith(s, d) == At(s, 1, d)

\* s holds d as a contiguous part
Includes(s, d) == \E i \in 1..(Len(s) + 1) : d = <<>> \/ At(s, i, d)

\* the sequences ss[lo], ..., ss[hi] joined, by halves
RECURSIVE ConcatRange(_, _, _)
ConcatRange(ss, lo, hi) ==
    IF lo > hi THEN <<>>
    ELSE IF lo = hi THEN ss[lo]
    ELSE ConcatRange(ss, lo, (lo + hi) \div 2) \o ConcatRange(ss, (lo + hi) \div 2 + 1, hi)

Concat(ss) == ConcatRange(ss, 1, Len(ss))

(***************************************************************************)
(* isValidUrl: new URL(url) and the protocol test                          *)
(***************************************************************************)
HttpSchemes == {"http", "https"}

SpecialSchemes == {"http", "https", "ftp", "ws", "wss", "file"}

SchemeWords == SpecialSchemes \cup {"mailto", "javascript", "data"}

RECURSIVE SkipSlashes(_)
SkipSlashes(s) ==
    IF s # <<>> /\ Head(s)[1] \in {"/", "\\"} THEN SkipSlashes(Tail(s)) ELSE s

RECURSIVE HostOf(_)
HostOf(s) ==
    IF s = <<>> \/ Head(s)[1] \in {"/", "\\", "?", "#"} THEN <<>>
    ELSE <<Head(s)>> \o HostOf(Tail(s))

ForbiddenHostChars == {" ", "\n", "[", "]", "<", ">", "^", "|"}

HostIsBad(host) ==
    host = <<>> \/ \E i \in 1..Len(host) : host[i][1] \in ForbiddenHostChars

\* the parse of a string stripped of its surrounding spaces
ParseTrimmed(t) ==
    IF Len(t) < 2 \/ t[1][1] \notin SchemeWords \/ t[2] # Ch(":")
    THEN [ok |-> FALSE]
    ELSE IF t[1][1] \in HttpSchemes /\ HostIsBad(HostOf(SkipSlashes(SubSeq(t, 3, Len(t)))))
    THEN [ok |-> FALSE]
    ELSE [ok |-> TRUE, protocol |-> t[1][1]]

\* The URL constructor: [ok |-> FALSE] when it throws, else the protocol.
\* Leading and trailing spaces are stripped; without a scheme there is no
\* base to resolve against; an http(s) URL needs a non-empty host free of
\* forbidden host code points.
UrlParse(url) == ParseTrimmed(Trim(url))

\* ['http:', 'https:'].includes(parsed.protocol)
IsHttp(parsed) == parsed.ok /\ parsed.protocol \in HttpSchemes

isValidUrl(url) == IsHttp(UrlParse(url))

(***************************************************************************)
(* Inline-text formatter                                                   *)
(***************************************************************************)
MaxRunLen == 2000

TruncLen == 1997

Ellipsis == <<W("...", 3)>>

Flags == {"bold", "italic", "strikethrough", "underline", "code"}

\* options?.f || false
Flag(options, f) == Has(options, f) /\ options[f] = TRUE

\* the fields fs of obj that are present: an options object built from
\* possibly undefined values
Pick(obj, fs) == [f \in fs \cap DOMAIN obj |-> obj[f]]

SpaceRun ==
    [type |-> "text", content |-> <<Ch(" ")>>, link |-> <<>>,
     annotations |-> {}, color |-> "default"]

\* Variant of the truncation that cuts at the limit before adding the marker.
TruncatedLate(cleanContent) ==
    IF StrLen(cleanContent) > MaxRunLen
    THEN Substring(cleanContent, MaxRunLen) \o Ellipsis
    ELSE cleanContent

\* cleanContent.length > 2000 ? cleanContent.substring(0, 1997) + '...' : cleanContent
Truncated(cleanContent) ==
    IF StrLen(cleanContent) > MaxRunLen
    THEN Substring(cleanContent, TruncLen) \o Ellipsis
    ELSE cleanContent

\* Variant of the run that lets an empty content through.
TextRunUnguarded(truncatedContent, options) ==
    [type |-> "text",
     content |-> truncatedContent,
     link |-> IF Has(options, "link") THEN options.link ELSE <<>>,
     annotations |-> {f \in Flags : Flag(options, f)},
     color |-> IF Has(options, "color") /\ options.color # ""
               THEN options.color ELSE "default"]

\* the run made of the truncated content
TextRun(truncatedContent, options) ==
    IF truncatedContent = <<>> THEN SpaceRun
    ELSE [type |-> "text",
          content |-> truncatedContent,
          link |-> IF Has(options, "link") THEN options.link ELSE <<>>,
          annotations |-> {f \in Flags : Flag(options, f)},
          color |-> IF Has(options, "color") /\ options.color # ""
                    THEN options.color ELSE "default"]

\* richText(content, options): one run.  annotations is the set of flags
\* that are true; link <<>> is null.
richText(content, options) == TextRun(Truncated(Trim(content)), options)

Newline == Ch("\n")

\* the grave accent that delimits inline code
Backtick == Ch("backtick")

\* "." of a regular expression matches every atom of s[a..b]
NoNewline(s, a, b) == \A x \in a..b : s[x] # Newline

\* starts (1-based) of the closing delimiter d of a span opened at i
DelimCloses(s, i, d) ==
    {j \in (i + Len(d) + 1)..Len(s) : At(s, j, d) /\ NoNewline(s, i + Len(d), j - 1)}

\* regex.exec in a loop for /d(.+?)d/g from position pos on: the leftmost
\* match, shortest body, then on from the end of the match
RECURSIVE DelimTokens(_, _, _, _)
\* the match opened at i and closed at j, then the matches after it
DelimMatch(s, i, j, d, style) ==
    <<[start |-> i - 1, end |-> j + Len(d) - 1,
       text |-> SubSeq(s, i + Len(d), j - 1),
       style |-> style, link |-> <<>>]>>
    \o DelimTokens(s, j + Len(d), d, style)

\* the leftmost of the possible starts, with the shortest body
DelimFirst(s, starts, d, style) ==
    IF starts = {} THEN <<>>
    ELSE DelimMatch(s, Min(starts), Min(DelimCloses(s, Min(starts), d)), d, style)

DelimTokens(s, pos, d, style) ==
    DelimFirst(s, {i \in pos..Len(s) : At(s, i, d) /\ DelimCloses(s, i, d) # {}}, d, style)

\* ends k of "](...)" closing a link whose "]" is at j
LinkEnds(s, j) ==
    {k \in (j + 3)..Len(s) : s[k] = Ch(")") /\ NoNewline(s, j + 2, k - 1)}

\* places j of the "]" of a link opened at i
LinkMids(s, i) ==
    {j \in (i + 2)..(Len(s) - 1) :
        /\ s[j] = Ch("]") /\ s[j + 1] = Ch("(")
        /\ NoNewline(s, i + 1, j - 1)
        /\ LinkEnds(s, j) # {}}

\* regex.exec in a loop for /\[(.+?)\]\((.+?)\)/g
RECURSIVE LinkTokens(_, _)
\* the link opened at i, with "]" at j and ")" at k, then the links after it
LinkMatch(s, i, j, k) ==
    <<[start |-> i - 1, end |-> k,
       text |-> SubSeq(s, i + 1, j - 1),
       style |-> {}, link |-> SubSeq(s, j + 2, k - 1)]>>
    \o LinkTokens(s, k + 1)

LinkAt(s, i, j) == LinkMatch(s, i, j, Min(LinkEnds(s, j)))

LinkFirst(s, starts) ==
    IF starts = {} THEN <<>> ELSE LinkAt(s, Min(starts), Min(LinkMids(s, Min(starts))))

LinkTokens(s, pos) ==
    LinkFirst(s, {i \in pos..Len(s) : s[i] = Ch("[") /\ LinkMids(s, i) # {}})

\* tokens of the five patterns, in pattern order
ScanTokens(text) ==
    DelimTokens(text, 1, <<Ch("*"), Ch("*")>>, {"bold"})
    \o DelimTokens(text, 1, <<Ch("*")>>, {"italic"})
    \o DelimTokens(text, 1, <<Backtick>>, {"code"})
    \o DelimTokens(text, 1, <<Ch("~"), Ch("~")>>, {"strikethrough"})
    \o LinkTokens(text, 1)

\* Variant of the insertion that puts a token before those of the same start.
RECURSIVE InsertTokenBeforeTies(_, _)
InsertTokenBeforeTies(sorted, t) ==
    IF sorted = <<>> THEN <<t>>
    ELSE IF t.start <= Head(sorted).start THEN <<t>> \o sorted
    ELSE <<Head(sorted)>> \o InsertTokenBeforeTies(Tail(sorted), t)

\* Array.prototype.sort((a, b) => a.start - b.start): stable
RECURSIVE InsertToken(_, _)
InsertToken(sorted, t) ==
    IF sorted = <<>> THEN <<t>>
    ELSE IF t.start < Head(sorted).start THEN <<t>> \o sorted
    ELSE <<Head(sorted)>> \o InsertToken(Tail(sorted), t)

RECURSIVE SortTokens(_)
SortTokens(tokens) ==
    IF tokens = <<>> THEN <<>>
    ELSE InsertToken(SortTokens(SubSeq(tokens, 1, Len(tokens) - 1)), tokens[Len(tokens)])

TokenOptions(token) ==
    [f \in token.style |-> TRUE]
    @@ (IF token.link # <<>> THEN [link |-> token.link] ELSE NoFields)

RECURSIVE BuildSegments(_, _, _, _)
\* the run of the plain text text.slice(from, to), unless empty or blank
PlainRun(text, from, to) ==
    IF to > from /\ Trim(Slice(text, from, to)) # <<>>
    THEN <<richText(Slice(text, from, to), NoFields)>> ELSE <<>>

\* the loop over the sorted tokens: [segments, lastEnd]
BuildSegments(text, tokens, segments, lastEnd) ==
    IF tokens = <<>> THEN [segments |-> segments, lastEnd |-> lastEnd]
    ELSE IF Head(tokens).start < lastEnd
    THEN BuildSegments(text, Tail(tokens), segments, lastEnd)
    ELSE BuildSegments(text, Tail(tokens),
                       segments \o PlainRun(text, lastEnd, Head(tokens).start)
                       \o <<richText(Head(tokens).text, TokenOptions(Head(tokens)))>>,
                       Head(tokens).end)

\* segments.length > 0 ? segments : [richText(text)]
OrWholeText(text, segments) ==
    IF Len(segments) > 0 THEN segments ELSE <<richText(text, NoFields)>>

\* the segments of the loop, then the text left after the last token
WithRemaining(text, built) ==
    OrWholeText(text, built.segments \o PlainRun(text, built.lastEnd, Len(text)))

SegmentsOf(text, tokens) ==
    IF tokens = <<>> THEN <<richText(text, NoFields)>>
    ELSE WithRemaining(text, BuildSegments(text, tokens, <<>>, 0))

parseFormattedText(text) == SegmentsOf(text, SortTokens(ScanTokens(text)))

Map(xs, F(_)) == [i \in 1..Len(xs) |-> F(xs[i])]

SegmentHasText(seg) == Has(seg, "text") /\ seg.text # <<>> /\ Trim(seg.text) # <<>>

SegmentRun(seg) == richText(seg.text, Pick(seg, Flags \cup {"color", "link"}))

formattedSegmentsToRichText(segments) ==
    Map(SelectSeq(segments, SegmentHasText), SegmentRun)

(***************************************************************************)
(* Text blocks.  A TextContent is S(string), RT(runs) or Segs(segments);   *)
(* a block is [object, type, data] with data the payload block[type].      *)
(***************************************************************************)
S(s) == [str |-> s]

RT(runs) == [rich_text |-> runs]

Segs(segments) == [segments |-> segments]

RunHasText(rt) == Trim(rt.content) # <<>>

\* toRichTextArray: Null or RT(runs)
StringRuns(trimmed, parseMarkdown) ==
    IF trimmed = <<>> THEN Null
    ELSE RT(IF parseMarkdown THEN parseFormattedText(trimmed)
            ELSE <<richText(trimmed, NoFields)>>)

toRichTextArray(content, parseMarkdown) ==
    IF Has(content, "str") THEN StringRuns(Trim(content.str), parseMarkdown)
    ELSE IF Has(content, "rich_text") /\ Len(content.rich_text) > 0
    THEN RT(SelectSeq(content.rich_text, RunHasText))
    ELSE IF Has(content, "segments") /\ Len(content.segments) > 0
    THEN RT(formattedSegmentsToRichText(content.segments))
    ELSE Null

\* options?.parseMarkdown !== false
ParseMarkdown(options) == ~(Has(options, "parseMarkdown") /\ options.parseMarkdown = FALSE)

\* options?.color || 'default'
ColorOf(options) ==
    IF Has(options, "color") /\ options.color # "" THEN options.color ELSE "default"

\* toRichTextArray(...) || [richText('')]
OrPlaceholder(runs) ==
    IF runs = Null THEN <<richText(<<>>, NoFields)>> ELSE runs.rich_text

RunsOrPlaceholder(content, options) ==
    OrPlaceholder(toRichTextArray(content, ParseMarkdown(options)))

Block(type, data) == [object |-> "block", type |-> type, data |-> data]

\* if (options?.children) block[type].children = options.children
WithChildren(data, options) ==
    IF Has(options, "children") THEN data @@ [children |-> options.children] ELSE data

\* the paragraph of the converted content
ParagraphOf(richTextContent, options) ==
    IF richTextContent = Null \/ Len(richTextContent.rich_text) = 0 THEN Null
    ELSE Block("paragraph",
               WithChildren([rich_text |-> richTextContent.rich_text,
                             color |-> ColorOf(options)], options))

paragraph(content, options) ==
    ParagraphOf(toRichTextArray(content, ParseMarkdown(options)), options)

HeadingData(content, options) ==
    [rich_text |-> RunsOrPlaceholder(content, options),
     color |-> ColorOf(options),
     is_toggleable |-> Flag(options, "toggleable")]
    @@ (IF Flag(options, "toggleable") /\ Has(options, "children")
        THEN [children |-> options.children] ELSE NoFields)

heading1(content, options) == Block("heading_1", HeadingData(content, options))

heading2(content, options) == Block("heading_2", HeadingData(content, options))

heading3(content, options) == Block("heading_3", HeadingData(content, options))

DefaultIcon == "bulb"

callout(content, options) ==
    Block("callout",
          WithChildren([rich_text |-> RunsOrPlaceholder(content, options),
                        icon |-> IF Has(options, "icon") /\ options.icon # ""
                                 THEN options.icon ELSE DefaultIcon,
                        color |-> ColorOf(options)], options))

quote(content, options) ==
    Block("quote",
          WithChildren([rich_text |-> RunsOrPlaceholder(content, options),
                        color |-> ColorOf(options)], options))

(***************************************************************************)
(* Code, lists, media, layout                                              *)
(***************************************************************************)
MaxCodeLength == 50000

CodeTruncMargin == 100

\* '\n\n// ... Code tronqué'
CodeTruncMarker ==
    <<Newline, Newline, Ch("/"), Ch("/"), Ch(" "), W("...", 3), Ch(" "),
      W("Code", 4), Ch(" "), W("tronque", 7)>>

\* caption ? [richText(caption)] : []
CaptionRuns(caption) == IF caption # <<>> THEN <<richText(caption, NoFields)>> ELSE <<>>

\* the code, cut when it is longer than the limit
CodeContent(trimmed) ==
    IF StrLen(trimmed) > MaxCodeLength
    THEN Substring(trimmed, MaxCodeLength - CodeTruncMargin) \o CodeTruncMarker
    ELSE trimmed

code(content, language, caption) ==
    Block("code", [rich_text |-> <<richText(CodeContent(Trim(content)), NoFields)>>,
                   language |-> language,
                   caption |-> CaptionRuns(caption)])

equation(expression) == Block("equation", [expression |-> expression])

bulletedListItem(content, options) ==
    Block("bulleted_list_item",
          WithChildren([rich_text |-> RunsOrPlaceholder(content, options),
                        color |-> ColorOf(options)], options))

numberedListItem(content, options) ==
    Block("numbered_list_item",
          WithChildren([rich_text |-> RunsOrPlaceholder(content, options),
                        color |-> ColorOf(options)], options))

todo(content, checked, options) ==
    Block("to_do",
          WithChildren([rich_text |-> RunsOrPlaceholder(content, options),
                        checked |-> checked,
                        color |-> ColorOf(options)], options))

toggle(content, children, options) ==
    Block("toggle", [rich_text |-> RunsOrPlaceholder(content, options),
                     color |-> ColorOf(options),
                     children |-> children])

\* `[<label> invalide: ${url}]`
InvalidUrlText(label, url) ==
    <<Ch("["), label, Ch(" "), W("invalide", 8), Ch(":"), Ch(" ")>> \o url \o <<Ch("]")>>

External(type, url, caption) ==
    Block(type, [type |-> "external", external |-> [url |-> url],
                 caption |-> CaptionRuns(caption)])

image(url, caption) ==
    IF ~isValidUrl(url) THEN paragraph(S(InvalidUrlText(W("Image", 5), url)), NoFields)
    ELSE External("image", url, caption)

video(url, caption) ==
    IF ~isValidUrl(url) THEN paragraph(S(InvalidUrlText(W("Video", 5), url)), NoFields)
    ELSE External("video", url, caption)

audio(url, caption) ==
    IF ~isValidUrl(url) THEN paragraph(S(InvalidUrlText(W("Audio", 5), url)), NoFields)
    ELSE External("audio", url, caption)

pdf(url, caption) ==
    IF ~isValidUrl(url) THEN paragraph(S(InvalidUrlText(W("PDF", 3), url)), NoFields)
    ELSE External("pdf", url, caption)

\* name || 'file'
file(url, name, caption) ==
    IF ~isValidUrl(url) THEN paragraph(S(InvalidUrlText(W("Fichier", 7), url)), NoFields)
    ELSE Block("file", [type |-> "external", external |-> [url |-> url],
                        name |-> IF name # <<>> THEN name ELSE <<W("file", 4)>>,
                        caption |-> CaptionRuns(caption)])

embed(url) ==
    IF ~isValidUrl(url) THEN paragraph(S(InvalidUrlText(W("Embed", 5), url)), NoFields)
    ELSE Block("embed", [url |-> url])

\* Variant of bookmark that skips the URL check.
bookmarkUnchecked(url, caption) ==
    Block("bookmark", [url |-> url, caption |-> CaptionRuns(caption)])

bookmark(url, caption) ==
    IF ~isValidUrl(url) THEN paragraph(S(InvalidUrlText(W("Bookmark", 8), url)), NoFields)
    ELSE Block("bookmark", [url |-> url, caption |-> CaptionRuns(caption)])

divider == Block("divider", NoFields)

\* color || 'default'
tableOfContents(color) ==
    Block("table_of_contents", [color |-> IF color # "" THEN color ELSE "default"])

breadcrumb == Block("breadcrumb", NoFields)

\* columnList(columns) for columns given as lists of blocks (any[][])
Column(children) == Block("column", [children |-> children])

columnList(columns) == Block("column_list", [children |-> Map(columns, Column)])

\* Variant of table reading rows[0].length without the optional chaining.
TableCell(cell) == <<richText(cell, NoFields)>>

TableRow(row) == Block("table_row", [cells |-> Map(row, TableCell)])

\* the table block of the given width
TableOf(width, rows, options) ==
    Block("table",
          [table_width |-> width,
           has_column_header |->
               IF Has(options, "hasColumnHeader") THEN options.hasColumnHeader ELSE TRUE,
           has_row_header |->
               IF Has(options, "hasRowHeader") THEN options.hasRowHeader ELSE FALSE,
           children |-> Map(rows, TableRow)])

tableUnguarded(rows, options) ==
    IF Len(rows) = 0
    THEN Throw("TypeError: Cannot read properties of undefined (reading 'length')")
    ELSE TableOf(Len(rows[1]), rows, options)

\* table(rows, options) for cells given as strings
table(rows, options) ==
    TableOf(IF Len(rows) > 0 THEN Len(rows[1]) ELSE 0, rows, options)

\* filterValidBlocks(blocks)
NotNull(block) == block # Null

filterValidBlocks(bs) == SelectSeq(bs, NotNull)

(***************************************************************************)
(* Course templates.  An emoji is one atom named after it, of the length   *)
(* (in UTF-16 units) JavaScript gives it.                                  *)
(***************************************************************************)
Emoji(name) == <<name, 2>>

\* TEMPLATE_EMOJIS, in the order of the source
TEMPLATE_EMOJIS ==
    <<"emoji_info", "emoji_warning", "emoji_bulb", "emoji_siren", "emoji_book",
      "emoji_pencil", "emoji_brain", "emoji_memo", "emoji_target",
      "emoji_clipboard", "emoji_stopwatch">>

\* the for loop of cleanLeadingEmoji from the i-th emoji on
RECURSIVE CleanFrom(_, _)
CleanFrom(cleaned, i) ==
    IF i > Len(TEMPLATE_EMOJIS) THEN cleaned
    ELSE IF StartsWith(cleaned, <<Emoji(TEMPLATE_EMOJIS[i])>>)
         THEN CleanFrom(Trim(Tail(cleaned)), i + 1)
         ELSE CleanFrom(cleaned, i + 1)

cleanLeadingEmoji(text) == CleanFrom(Trim(text), 1)

NoteConfigs ==
    [info |-> [icon |-> "emoji_info", color |-> "blue_background"],
     warning |-> [icon |-> "emoji_warning", color |-> "yellow_background"],
     tip |-> [icon |-> "emoji_bulb", color |-> "green_background"],
     danger |-> [icon |-> "emoji_siren", color |-> "red_background"]]

noteImportante(content, type) ==
    callout(S(cleanLeadingEmoji(content)), NoteConfigs[type])

definition(term, def, options) ==
    callout(RT(<<richText(term, [bold |-> TRUE]),
                 richText(<<Ch(":"), Ch(" ")>>, NoFields),
                 richText(cleanLeadingEmoji(def), NoFields)>>),
            [icon |-> "emoji_book",
             color |-> IF Has(options, "color") /\ options.color # ""
                       THEN options.color ELSE "purple_background"])

\* `${number}`
NumStr(n) == <<W(ToString(n), IF n < 0 THEN 2 ELSE IF n < 10 THEN 1 ELSE IF n < 100 THEN 2 ELSE 3)>>

IsDigits(a) == \E n \in 0..99 : a[1] = ToString(n)

RECURSIVE SkipSpaces(_)
SkipSpaces(s) == IF s # <<>> /\ IsSpace(Head(s)) THEN SkipSpaces(Tail(s)) ELSE s

\* the word, whatever its letter case: the i flag of the patterns
WordIs(a, lower) ==
    a[1] \in {lower, lower \o "_capitalised", lower \o "_upper"}

\* \s*:\s* matched at the head of s: what follows it, or the whole when it fails
AfterColon(s, whole) ==
    IF s # <<>> /\ Head(s) = Ch(":") THEN SkipSpaces(Tail(s)) ELSE whole

\* \d+\s*:\s* matched at the head of s
AfterNumber(s, whole) ==
    IF s # <<>> /\ IsDigits(Head(s)) THEN AfterColon(SkipSpaces(Tail(s)), whole) ELSE whole

\* title.replace(/^Étape\s+\d+\s*:\s*/i, '')
StripStepPrefix(title) ==
    IF Len(title) >= 2 /\ WordIs(title[1], "etape") /\ IsSpace(title[2])
    THEN AfterNumber(SkipSpaces(Tail(title)), title)
    ELSE title

\* Variant of the label removal that leaves the string as it is.
StripLabelKept(s, lower) == s

\* s.replace(/^<word>\s*:\s*/i, '')
StripLabel(s, lower) ==
    IF s # <<>> /\ WordIs(s[1], lower) THEN AfterColon(SkipSpaces(Tail(s)), s) ELSE s

emojiNumbers ==
    <<"emoji_1", "emoji_2", "emoji_3", "emoji_4", "emoji_5",
      "emoji_6", "emoji_7", "emoji_8", "emoji_9", "emoji_10">>

MaxEmojiNumber == 10

\* number <= 10 ? emojiNumbers[number - 1] : the record emoji
StepEmoji(number) ==
    IF number <= MaxEmojiNumber
    THEN (IF number >= 1 THEN emojiNumbers[number] ELSE "")
    ELSE "emoji_record"

\* Variant of the step's children that pushes the description block unchecked.
StepChildrenUnchecked(description, children) ==
    (IF description # <<>> THEN <<paragraph(S(description), NoFields)>> ELSE <<>>)
    \o filterValidBlocks(children)

\* [descBlock, ...children] without the null blocks
StepChildren(description, children) ==
    (IF description # <<>>
     THEN filterValidBlocks(<<paragraph(S(description), NoFields)>>) ELSE <<>>)
    \o filterValidBlocks(children)

StepCallout(number, title, blockChildren) ==
    callout(RT(<<richText(<<W("etape_capitalised", 5), Ch(" ")>> \o NumStr(number)
                          \o <<Ch(":"), Ch(" ")>>, [bold |-> TRUE]),
                 richText(Trim(StripStepPrefix(title)), NoFields)>>),
            [icon |-> StepEmoji(number), color |-> "gray_background"]
            @@ (IF Len(blockChildren) > 0 THEN [children |-> blockChildren] ELSE NoFields))

\* step(number, title, description, children); description <<>> and
\* children <<>> stand for the absent arguments
step(number, title, description, children) ==
    StepCallout(number, title, StepChildren(description, children))

NonEmpty(str) == Len(str) > 0

\* xs.map(x => x.trim()).filter(x => x.length > 0)
CleanList(xs) == SelectSeq(Map(xs, Trim), NonEmpty)

\* x => bulletedListItem(x)
BulletOf(str) == bulletedListItem(S(str), NoFields)

\* the toggle that holds the solution, when there is one
SolutionToggle(solution) ==
    IF solution # <<>>
    THEN <<toggle(S(<<Emoji("emoji_bulb"), Ch(" "), W("Voir", 4), Ch(" "), W("la", 2),
                     Ch(" "), W("solution", 8)>>),
                  <<code(Trim(solution), "plain text", <<>>)>>,
                  [color |-> "green_background"])>>
    ELSE <<>>

exercice(title, instructions, solution) ==
    callout(RT(<<richText(<<W("exercice_capitalised", 8), Ch(":"), Ch(" ")>>, [bold |-> TRUE]),
                 richText(Trim(StripLabel(cleanLeadingEmoji(title), "exercice")), NoFields)>>),
            [icon |-> "emoji_pencil", color |-> "orange_background",
             children |-> Map(CleanList(instructions), BulletOf) \o SolutionToggle(solution)])

BlueBulletOf(p) == bulletedListItem(S(p), [color |-> "blue"])

chapterSummary(points) ==
    callout(S(<<W("Points", 6), Ch(" "), W("cles", 4), Ch(" "), W("a", 1), Ch(" "),
                W("retenir", 7)>>),
            [icon |-> "emoji_memo", color |-> "blue_background",
             children |-> Map(CleanList(points), BlueBulletOf)])

TodoOf(o) == todo(S(o), FALSE, NoFields)

learningObjectives(objectives) ==
    callout(S(<<W("A la fin de cette section, vous serez capable de", 48), Ch(" "), Ch(":")>>),
            [icon |-> "emoji_target", color |-> "green_background",
             children |-> Map(CleanList(objectives), TodoOf)])

prerequisites(items) ==
    callout(S(<<W("Prerequis", 9)>>),
            [icon |-> "emoji_clipboard", color |-> "gray_background",
             children |-> Map(CleanList(items), BulletOf)])

estimatedTime(minutes) ==
    callout(S(<<W("Temps", 5), Ch(" "), W("estime", 6), Ch(" "), Ch(":"), Ch(" ")>>
              \o NumStr(minutes) \o <<Ch(" "), W("minutes", 7)>>),
            [icon |-> "emoji_stopwatch", color |-> "purple_background"])

comparison(left, right) ==
    columnList(<< <<heading3(S(left.title), [color |-> "green"])>> \o left.content,
                  <<heading3(S(right.title), [color |-> "red"])>> \o right.content >>)

ExplanationLine(e) ==
    bulletedListItem(RT(<<richText(e.line, [code |-> TRUE]),
                          richText(<<Ch(" "), W("->", 1), Ch(" ")>>, NoFields),
                          richText(e.explanation, NoFields)>>), NoFields)

codeWithExplanation(codeContent, language, explanations) ==
    <<code(codeContent, language, <<>>),
      callout(S(<<W("Explication", 11), Ch(" "), W("ligne", 5), Ch(" "), W("par", 3),
                  Ch(" "), W("ligne", 5), Ch(" "), Ch(":")>>),
              [icon |-> "emoji_book", color |-> "gray_background",
               children |-> Map(explanations, ExplanationLine)])>>

\* String.fromCharCode(65 + i) for i in 0..26
Letters ==
    <<"A", "B", "C", "D", "E", "F", "G", "H", "I", "J", "K", "L", "M", "N", "O",
      "P", "Q", "R", "S", "T", "U", "V", "W", "X", "Y", "Z", "[">>

MinQuizOptions == 2

QuizInvalidText ==
    <<W("Quiz", 4), Ch(" "), W("invalide", 8), Ch(" "), Ch(":"), Ch(" "), W("options", 7),
      Ch(" "), W("manquantes", 10)>>

\* `${String.fromCharCode(65 + i)}) ${opt}`
OptionLine(i, opt) == <<Ch(Letters[i + 1]), Ch(")"), Ch(" ")>> \o opt

\* Variant of the index reset that falls back on the last option.
QuizIndexLast(options, correctIndex) ==
    IF correctIndex < 0 \/ correctIndex >= Len(options) THEN Len(options) - 1 ELSE correctIndex

\* correctIndex, or 0 when it is outside the options
QuizIndex(options, correctIndex) ==
    IF correctIndex < 0 \/ correctIndex >= Len(options) THEN 0 ELSE correctIndex

\* the toggle that reveals the answer
AnswerToggle(cleanOptions, index) ==
    toggle(S(<<W("Voir", 4), Ch(" "), W("la", 2), Ch(" "), W("reponse", 7)>>),
           <<callout(S(<<W("La", 2), Ch(" "), W("bonne", 5), Ch(" "),
                         W("reponse", 7), Ch(" "), W("est", 3), Ch(" ")>>
                       \o OptionLine(index, cleanOptions[index + 1])),
                     [icon |-> "emoji_check", color |-> "green_background"])>>,
           NoFields)

QuizCallout(question, cleanOptions, index) ==
    callout(RT(<<richText(<<W("quiz_capitalised", 4), Ch(":"), Ch(" ")>>, [bold |-> TRUE]),
                 richText(Trim(StripLabel(cleanLeadingEmoji(question), "quiz")), NoFields)>>),
            [icon |-> "emoji_brain", color |-> "purple_background",
             children |->
                 [i \in 1..Len(cleanOptions) |->
                     bulletedListItem(S(OptionLine(i - 1, cleanOptions[i])), NoFields)]
                 \o <<AnswerToggle(cleanOptions, index)>>])

\* Variant of quickQuiz that accepts a single option.
quickQuizAtLeastOne(question, options, correctIndex) ==
    IF Len(options) < 1 THEN paragraph(S(QuizInvalidText), NoFields)
    ELSE QuizCallout(question, Map(options, Trim), QuizIndex(options, correctIndex))

\* quickQuiz(question, options, correctIndex)
quickQuiz(question, options, correctIndex) ==
    IF Len(options) < MinQuizOptions THEN paragraph(S(QuizInvalidText), NoFields)
    ELSE QuizCallout(question, Map(options, Trim), QuizIndex(options, correctIndex))

(***************************************************************************)
(* Course compiler: buildCourseBlock                                       *)
(***************************************************************************)
\* item.f || d for a string or a number field (empty and 0 are falsy)
StrOr(item, f, d) == IF Has(item, f) /\ item[f] # <<>> THEN item[f] ELSE d

NumOr(item, f, d) == IF Has(item, f) /\ item[f] # 0 THEN item[f] ELSE d

\* item.f || d for an array or object field (falsy only when absent)
ArrOr(item, f, d) == IF Has(item, f) THEN item[f] ELSE d

\* item.f || d for a name (colour, language, icon)
NameOr(item, f, d) == IF Has(item, f) /\ item[f] # "" THEN item[f] ELSE d

\* the value of switch (item.type): an absent tag reads "undefined"
TypeOf(item) == IF Has(item, "type") THEN item.type ELSE "undefined"

\* `${item.type}` for the unrecognized tags of the model
TagText(t) ==
    CASE t = "foobar" -> <<W("foobar", 6)>>
      [] t = "undefined" -> <<W("undefined", 9)>>
      [] t = "*bar*" -> <<Ch("*"), W("bar", 3), Ch("*")>>
      [] t = "long" -> <<W("x", 1990)>>
      [] OTHER -> <<W(t, 1)>>

\* Variant of the placeholder that leaves the type out.
UnknownTypeTextAnonymous(t) ==
    <<Ch("["), W("Type", 4), Ch(" "), W("non", 3), Ch(" "), W("reconnu", 7), Ch("]")>>

\* `[Type non reconnu: ${item.type}]`
UnknownTypeText(t) ==
    <<Ch("["), W("Type", 4), Ch(" "), W("non", 3), Ch(" "), W("reconnu", 7), Ch(":"), Ch(" ")>>
    \o TagText(t) \o <<Ch("]")>>

\* the array a case returns
ListOf(bs) == [list |-> bs]

IsList(v) == "list" \in DOMAIN v

\* result ? (Array.isArray(result) ? result : [result]) : []
AsList(result) ==
    IF result = Null THEN <<>> ELSE IF IsList(result) THEN result.list ELSE <<result>>

\* one side of a comparison item: items.map(i => bulletedListItem(i))
ComparisonSide(side) ==
    [title |-> IF Has(side, "title") THEN side.title ELSE <<>>,
     content |-> Map(side.items, BulletOf)]

RECURSIVE buildCourseBlock(_)
\* i => numberedListItem(i)
NumberedOf(str) == numberedListItem(S(str), NoFields)

\* the toggle of the children built: the first exception of the map wins
ToggleOf(item, text, results) ==
    IF \E i \in 1..Len(results) : IsThrow(results[i])
    THEN results[Min({i \in 1..Len(results) : IsThrow(results[i])})]
    ELSE toggle(text, filterValidBlocks(Concat(Map(results, AsList))), Pick(item, {"color"}))

\* switch (item.type), with text = item.text || ''
SwitchType(item, t, text) ==
    CASE t = "paragraph" -> paragraph(text, NoFields)
      [] t = "heading1" -> heading1(text, Pick(item, {"color", "toggleable"}))
      [] t = "heading2" -> heading2(text, Pick(item, {"color", "toggleable"}))
      [] t = "heading3" -> heading3(text, Pick(item, {"color", "toggleable"}))
      [] t = "quote" -> quote(text, Pick(item, {"color"}))
      [] t = "callout" -> callout(text, Pick(item, {"icon", "color"}))
      [] t \in {"info", "warning", "tip", "danger"} ->
            noteImportante(StrOr(item, "text", <<>>), t)
      [] t = "code" ->
            code(StrOr(item, "code", StrOr(item, "text", <<>>)),
                 NameOr(item, "language", "javascript"), StrOr(item, "caption", <<>>))
      [] t = "equation" -> equation(StrOr(item, "text", <<>>))
      [] t = "codeWithExplanation" ->
            ListOf(codeWithExplanation(StrOr(item, "code", <<>>),
                                       NameOr(item, "language", "javascript"),
                                       ArrOr(item, "explanations", <<>>)))
      [] t \in {"bullet", "bulletedListItem"} -> bulletedListItem(text, NoFields)
      [] t = "bullets" -> ListOf(Map(ArrOr(item, "items", <<>>), BulletOf))
      [] t \in {"numbered", "numberedListItem"} -> numberedListItem(text, NoFields)
      [] t = "numberedList" -> ListOf(Map(ArrOr(item, "items", <<>>), NumberedOf))
      [] t = "todo" -> todo(text, Flag(item, "checked"), NoFields)
      [] t = "todoList" -> ListOf(Map(ArrOr(item, "items", <<>>), TodoOf))
      [] t = "toggle" ->
            ToggleOf(item, text, Map(ArrOr(item, "children", <<>>), buildCourseBlock))
      [] t = "image" -> image(StrOr(item, "url", <<>>), StrOr(item, "caption", <<>>))
      [] t = "video" -> video(StrOr(item, "url", <<>>), StrOr(item, "caption", <<>>))
      [] t = "audio" -> audio(StrOr(item, "url", <<>>), StrOr(item, "caption", <<>>))
      [] t = "pdf" -> pdf(StrOr(item, "url", <<>>), StrOr(item, "caption", <<>>))
      [] t = "embed" -> embed(StrOr(item, "url", <<>>))
      [] t \in {"bookmark", "linkPreview"} ->
            bookmark(StrOr(item, "url", <<>>), StrOr(item, "caption", <<>>))
      [] t = "divider" -> divider
      [] t = "tableOfContents" -> tableOfContents(NameOr(item, "color", ""))
      [] t = "breadcrumb" -> breadcrumb
      [] t = "table" -> table(ArrOr(item, "rows", <<>>), [hasColumnHeader |-> TRUE])
      [] t \in {"columns", "comparison"} ->
            IF Has(item, "left") /\ Has(item, "right")
            THEN IF Has(item.left, "items") /\ Has(item.right, "items")
                 THEN comparison(ComparisonSide(item.left), ComparisonSide(item.right))
                 ELSE TypeErrorOn("map")
            ELSE divider
      [] t = "definition" ->
            definition(StrOr(item, "term", <<>>),
                       StrOr(item, "definition", StrOr(item, "text", <<>>)), NoFields)
      [] t = "step" ->
            step(NumOr(item, "stepNumber", 1), StrOr(item, "text", <<>>),
                 StrOr(item, "caption", <<>>), <<>>)
      [] t \in {"exercice", "exercise"} ->
            exercice(StrOr(item, "text", <<W("exercice_capitalised", 8)>>),
                     ArrOr(item, "instructions", ArrOr(item, "items", <<>>)),
                     StrOr(item, "solution", <<>>))
      [] t \in {"quiz", "quickQuiz"} ->
            quickQuiz(StrOr(item, "question", StrOr(item, "text", <<>>)),
                      ArrOr(item, "options", <<>>), NumOr(item, "correctIndex", 0))
      [] t \in {"summary", "chapterSummary"} -> chapterSummary(ArrOr(item, "items", <<>>))
      [] t \in {"objectives", "learningObjectives"} ->
            learningObjectives(ArrOr(item, "objectives", ArrOr(item, "items", <<>>)))
      [] t = "prerequisites" -> prerequisites(ArrOr(item, "items", <<>>))
      [] t = "estimatedTime" -> estimatedTime(NumOr(item, "minutes", 30))
      [] OTHER -> paragraph(S(StrOr(item, "text", UnknownTypeText(t))), NoFields)

buildCourseBlock(item) ==
    IF item = Null \/ item = Undefined THEN TypeErrorOn("type")
    ELSE SwitchType(item, TypeOf(item), S(StrOr(item, "text", <<>>)))

(***************************************************************************)
(* Inputs of the builders                                                  *)
(***************************************************************************)
\* an optional field f with values in V: absent, or present with a value
Opt(f, V) == {NoFields} \cup {f :> v : v \in V}

Hi == <<W("hi", 2)>>

Blank == <<Ch(" ")>>

Emphasis == <<Ch("*"), W("b", 1), Ch("*")>>

Texts == {<<>>, Blank, Hi, Emphasis}

RecognizedTypes ==
    {"paragraph", "heading1", "heading2", "heading3", "quote", "callout",
     "info", "warning", "tip", "danger", "code", "equation", "codeWithExplanation",
     "bullet", "bulletedListItem", "bullets", "numbered", "numberedListItem",
     "numberedList", "todo", "todoList", "toggle", "image", "video", "audio", "pdf",
     "embed", "bookmark", "linkPreview", "divider", "tableOfContents", "breadcrumb",
     "table", "columns", "comparison", "definition", "step", "exercice", "exercise",
     "quiz", "quickQuiz", "summary", "chapterSummary", "objectives",
     "learningObjectives", "prerequisites", "estimatedTime"}

UnknownTypes == {"foobar", "*bar*", "long"}

\* a type tag, or none
TypeTags(T) == {NoFields} \cup {[type |-> t] : t \in T}

StringLists == {<<>>, <<Hi>>, <<Hi, Blank, Emphasis>>}

HttpsUrl == <<W("https", 5), Ch(":"), Ch("/"), Ch("/"), W("x", 1)>>

FtpUrl == <<W("ftp", 3), Ch(":"), Ch("/"), Ch("/"), W("x", 1)>>

\* every type tag (or none, or an unknown one) with or without a text
TextItems ==
    {t @@ x : t \in TypeTags(RecognizedTypes \cup UnknownTypes), x \in Opt("text", Texts)}

StyledItems ==
    {[type |-> t, text |-> Hi] @@ c @@ g @@ i @@ k :
        t \in {"heading1", "quote", "callout", "todo", "tableOfContents"},
        c \in Opt("color", {"", "red"}), g \in Opt("toggleable", {TRUE}),
        i \in Opt("icon", {"emoji_book"}), k \in Opt("checked", {TRUE})}

ListItems ==
    {[type |-> t] @@ x @@ o :
        t \in {"bullets", "numberedList", "todoList", "summary", "chapterSummary",
               "prerequisites", "objectives", "learningObjectives", "exercice", "exercise"},
        x \in Opt("items", StringLists), o \in Opt("objectives", {<<Emphasis>>})}

ExerciceItems ==
    {[type |-> t] @@ x @@ i @@ sol :
        t \in {"exercice", "exercise"},
        x \in Opt("text", {<<W("exercice_capitalised", 8), Ch(":"), Ch(" "), W("Add", 3)>>,
                           <<W("exercise_capitalised", 8), Ch(":"), Ch(" "), W("Add", 3)>>}),
        i \in Opt("instructions", {<<>>, <<Hi>>}),
        sol \in Opt("solution", {<<>>, <<W("function", 8)>>})}

MediaItems ==
    {[type |-> t] @@ u @@ c :
        t \in {"image", "video", "audio", "pdf", "embed", "bookmark", "linkPreview"},
        u \in Opt("url", {<<>>, HttpsUrl, FtpUrl}), c \in Opt("caption", {Hi})}

CodeItems ==
    {[type |-> t] @@ c @@ x @@ l @@ e :
        t \in {"code", "codeWithExplanation"},
        c \in Opt("code", {<<W("x", 1)>>}), x \in Opt("text", {Hi}),
        l \in Opt("language", {"python"}),
        e \in Opt("explanations", {<<>>, <<[line |-> Hi, explanation |-> Emphasis]>>})}

Sides == {[title |-> Hi, items |-> <<Hi, Emphasis>>], [title |-> <<>>, items |-> <<>>]}

LayoutItems ==
    {[type |-> t] @@ l @@ r @@ w :
        t \in {"columns", "comparison", "table"},
        l \in Opt("left", Sides), r \in Opt("right", Sides),
        w \in Opt("rows", {<<>>, << <<Hi, Hi>>, <<Emphasis, Blank>> >>})}

DefinitionItems ==
    {[type |-> "definition"] @@ t @@ d @@ x :
        t \in Opt("term", {Hi}),
        d \in Opt("definition", {<<Emoji("emoji_book"), Ch(" "), W("def", 3)>>}),
        x \in Opt("text", {Hi})}

StepItems ==
    {[type |-> "step"] @@ n @@ x @@ c :
        n \in Opt("stepNumber", {-1, 0, 1, 10, 11}),
        x \in Opt("text", {Hi, <<W("etape_capitalised", 5), Ch(" "), W("1", 1), Ch(":"), Ch(" "), W("go", 2)>>}),
        c \in Opt("caption", {Hi})}

QuizOptionLists == {<<>>, <<W("x", 1)>>, <<<<W("a", 1)>>, <<W("b", 1)>>, <<W("c", 1)>> >>}

QuizItems ==
    {[type |-> t] @@ q @@ o @@ i :
        t \in {"quiz", "quickQuiz"},
        q \in Opt("question", {<<W("Q", 1)>>}),
        o \in Opt("options", {<<>>, << <<W("x", 1)>> >>,
                              << <<W("a", 1)>>, <<W("b", 1)>>, <<W("c", 1)>> >>}),
        i \in Opt("correctIndex", {-1, 0, 1, 2, 3, 5})}

TimeItems == {[type |-> "estimatedTime"] @@ m : m \in Opt("minutes", {0, 45})}

LeafItems ==
    TextItems \cup StyledItems \cup ListItems \cup ExerciceItems \cup MediaItems
    \cup CodeItems \cup LayoutItems \cup DefinitionItems \cup StepItems
    \cup QuizItems \cup TimeItems

ChildLists ==
    {<<>>,
     <<[type |-> "paragraph", text |-> Hi]>>,
     <<[type |-> "paragraph"], [type |-> "bullets", items |-> <<Hi, Blank>>],
       [type |-> "foobar"], [type |-> "image", url |-> FtpUrl]>>}

MaxDepth == 2

\* toggle items nested to depth d
RECURSIVE ToggleItems(_)
ToggleItems(d) ==
    IF d = 0 THEN {}
    ELSE {[type |-> "toggle"] @@ x @@ c :
            x \in Opt("text", {Hi}),
            c \in Opt("children", ChildLists \cup {<<t>> : t \in ToggleItems(d - 1)})}

Items == LeafItems \cup ToggleItems(MaxDepth)

(***************************************************************************)
(* validateCourse and generateRecommendations                              *)
(***************************************************************************)
CourseError(msg) == [section |-> 0, msg |-> msg]

SectionError(idx, msg) == [section |-> idx, msg |-> msg]

SectionWarning(idx, msg, n) == [section |-> idx, msg |-> msg, n |-> n]

\* the quiz checks of one item
QuizErrors(item, idx) ==
    IF TypeOf(item) \notin {"quiz", "quickQuiz"} THEN <<>>
    ELSE (IF ~Has(item, "options") \/ Len(item.options) < 2
          THEN <<SectionError(idx, "Quiz avec trop peu d'options")>> ELSE <<>>)
         \o
         (IF Has(item, "correctIndex")
             /\ item.correctIndex >= (IF Has(item, "options") THEN Len(item.options) ELSE 0)
          THEN <<SectionError(idx, "Quiz correctIndex invalide")>> ELSE <<>>)

\* the URL check of one item
UrlErrors(item, idx) ==
    IF TypeOf(item) \in {"image", "video", "audio", "pdf"}
       /\ Has(item, "url") /\ item.url # <<>> /\ ~isValidUrl(item.url)
    THEN <<SectionError(idx, "URL invalide pour " \o TypeOf(item))>> ELSE <<>>

\* the greatest index of the set, 0 when it is empty
LastOf(indices) ==
    IF indices = {} THEN 0 ELSE CHOOSE j \in indices : \A i \in indices : i <= j

\* Variant of the counter that a non-paragraph item does not reset.
ConsecutiveParagraphsNoReset(content, k) ==
    Cardinality({j \in 1..k : TypeOf(content[j]) = "paragraph"})

\* consecutiveParagraphs after item k of the content: the paragraphs since
\* the last item of another type
ConsecutiveParagraphs(content, k) ==
    k - LastOf({j \in 1..k : TypeOf(content[j]) # "paragraph"})

\* the warnings pushed for item k
ItemWarnings(content, k, idx) ==
    (IF TypeOf(content[k]) = "paragraph" /\ ConsecutiveParagraphs(content, k) >= 3
     THEN <<SectionWarning(idx, "paragraphes consecutifs", ConsecutiveParagraphs(content, k))>>
     ELSE <<>>)
    \o
    (IF Has(content[k], "text") /\ StrLen(content[k].text) > 2000
     THEN <<SectionWarning(idx, "Texte trop long", StrLen(content[k].text))>> ELSE <<>>)

\* section.content?.forEach(...): the errors and warnings pushed after those
\* of acc, or what reading a null item throws
CheckItems(content, idx, acc) ==
    IF \E k \in 1..Len(content) : content[k] = Null \/ content[k] = Undefined
    THEN TypeErrorOn("type")
    ELSE [errors |-> acc.errors
                     \o Concat([k \in 1..Len(content) |->
                                   QuizErrors(content[k], idx) \o UrlErrors(content[k], idx)]),
          warnings |-> acc.warnings
                       \o Concat([k \in 1..Len(content) |-> ItemWarnings(content, k, idx)])]

\* Variant of the section checks that forgets the title.
SectionErrorsContentOnly(section, idx) ==
    IF ~Has(section, "content") \/ Len(section.content) = 0
    THEN <<SectionError(idx, "contenu manquant")>> ELSE <<>>

\* the title and content checks of one section
SectionErrors(section, idx) ==
    (IF ~Has(section, "title") \/ section.title = <<>>
     THEN <<SectionError(idx, "titre manquant")>> ELSE <<>>)
    \o
    (IF ~Has(section, "content") \/ Len(section.content) = 0
     THEN <<SectionError(idx, "contenu manquant")>> ELSE <<>>)

\* course.sections?.forEach(...), from section idx on
RECURSIVE CheckSections(_, _, _)
\* the checks of the items of the section, after its own
SectionItems(section, idx, start) ==
    IF Has(section, "content") THEN CheckItems(section.content, idx, start) ELSE start

\* the sections after idx, unless a check of section idx threw
SectionsAfter(sections, idx, after) ==
    IF IsThrow(after) THEN after ELSE CheckSections(sections, idx + 1, after)

CheckSections(sections, idx, acc) ==
    IF idx > Len(sections) THEN acc
    ELSE IF sections[idx] = Null \/ sections[idx] = Undefined THEN TypeErrorOn("title")
    ELSE SectionsAfter(sections, idx,
                       SectionItems(sections[idx], idx,
                                    [errors |-> acc.errors \o SectionErrors(sections[idx], idx),
                                     warnings |-> acc.warnings]))

\* the required-field checks of the course
CourseErrors(course) ==
    (IF ~Has(course, "title") \/ course.title = <<>> \/ StrLen(Trim(course.title)) = 0
     THEN <<CourseError("Titre manquant")>> ELSE <<>>)
    \o
    (IF ~Has(course, "sections") \/ Len(course.sections) = 0
     THEN <<CourseError("Au moins une section requise")>> ELSE <<>>)

\* { valid: errors.length === 0, errors, warnings }
Verdict(found) ==
    IF IsThrow(found) THEN found
    ELSE [valid |-> Len(found.errors) = 0,
          errors |-> found.errors, warnings |-> found.warnings]

\* the checks of the sections, after those of the course
CourseSections(course, start) ==
    IF Has(course, "sections") THEN CheckSections(course.sections, 1, start) ELSE start

validateCourse(course) ==
    IF course = Undefined \/ course = Null THEN TypeErrorOn("title")
    ELSE Verdict(CourseSections(course, [errors |-> CourseErrors(course), warnings |-> <<>>]))

\* stats.blockTypes[t], undefined and 0 alike falsy
CountOf(blockTypes, t) == IF t \in DOMAIN blockTypes THEN blockTypes[t] ELSE 0

\* a / b > limit in floating point, for counts a, b >= 0: x / 0 is Infinity
\* for x > 0 and NaN (never greater) for 0 / 0
RatioExceeds(a, b, num, den) ==
    IF b = 0 THEN a > 0 ELSE a * den > num * b

\* the recommendations pushed, in the order of the checks
Recommendations(types, stats) ==
    (IF RatioExceeds(CountOf(types, "paragraph"), stats.totalBlocks, 1, 2)
     THEN <<"Trop de paragraphes">> ELSE <<>>)
    \o (IF CountOf(types, "exercice") = 0 /\ CountOf(types, "exercise") = 0
        THEN <<"Aucun exercice detecte">> ELSE <<>>)
    \o (IF CountOf(types, "quiz") = 0 /\ CountOf(types, "quickQuiz") = 0
        THEN <<"Aucun quiz detecte">> ELSE <<>>)
    \o (IF RatioExceeds(stats.totalBlocks, stats.totalSections, 15, 1)
        THEN <<"Sections trop longues">> ELSE <<>>)

\* recommendations.length === 0 ? ['Structure excellente'] : recommendations
OrExcellent(recommendations) ==
    IF Len(recommendations) = 0 THEN ListOf(<<"Structure excellente">>)
    ELSE ListOf(recommendations)

generateRecommendations(stats) ==
    IF stats = Undefined \/ stats = Null THEN TypeErrorOn("blockTypes")
    ELSE IF ~Has(stats, "blockTypes") THEN TypeErrorOn("paragraph")
    ELSE OrExcellent(Recommendations(stats.blockTypes, stats))

(***************************************************************************)
(* Calling the builders.  One behaviour is one call: call is the           *)
(* invocation, ret its result.  The server's variables stay idle.          *)
(***************************************************************************)
NotYet == [pending |-> TRUE]

NoCall == [fn |-> "none"]

NoRequest == [route |-> "none"]

Unsettled == [state |-> "pending"]

serverVars == <<req, pc, chunks, ci, calls, inflight, settled, page, responses,
                blocks, cursor>>

ServerIdle ==
    /\ req = NoRequest
    /\ pc = "idle"
    /\ chunks = <<>>
    /\ ci = 0
    /\ calls = <<>>
    /\ inflight = {}
    /\ settled = Unsettled
    /\ page = <<>>
    /\ responses = <<>>
    /\ blocks = <<>>
    /\ cursor = Undefined

Done == ret # NotYet

BuildCalls == {[fn |-> "buildCourseBlock", item |-> i] : i \in Items}

InitBuild == call \in BuildCalls /\ ret = NotYet /\ ServerIdle

CallBuildCourseBlock ==
    /\ call.fn = "buildCourseBlock"
    /\ ret = NotYet
    /\ ret' = buildCourseBlock(call.item)
    /\ UNCHANGED <<call, serverVars>>

NextBuild == CallBuildCourseBlock

SpecBuild == InitBuild /\ [][NextBuild]_vars

\* URL strings: optional leading space, scheme, slashes, host, path
UrlLeads == {<<>>, <<Ch(" ")>>}

UrlSchemes ==
    {<<>>, <<W("http", 4), Ch(":")>>, <<W("https", 5), Ch(":")>>, <<W("ftp", 3), Ch(":")>>}

UrlSlashes == {<<>>, <<Ch("/"), Ch("/")>>}

UrlHosts ==
    {<<>>, <<W("x", 1)>>, <<W("x", 1), Ch(" "), W("y", 1)>>,
     <<Ch("*"), W("x", 1), Ch("*")>>, <<W("x", 1990)>>}

UrlPaths ==
    {<<>>, <<Ch("/"), W("p", 1)>>, <<Ch("/"), Ch("*"), W("p", 1), Ch("*")>>,
     <<Ch("/"), Ch("]"), Ch("("), W("u", 1), Ch(")")>>}

MarkdownLink == <<Ch("["), W("a", 1), Ch("]"), Ch("(")>> \o HttpsUrl \o <<Ch(")")>>

Urls ==
    {l \o sch \o sl \o h \o pa :
        l \in UrlLeads, sch \in UrlSchemes, sl \in UrlSlashes, h \in UrlHosts, pa \in UrlPaths}
    \cup {MarkdownLink}

UrlBuilders == {"image", "video", "audio", "pdf", "file", "embed", "bookmark"}

UrlCalls == {[fn |-> b, url |-> u, caption |-> c] : b \in UrlBuilders, u \in Urls, c \in {<<>>, Hi}}

\* BlockBuilders[fn](url, ...)
UrlBuilder(fn, url, caption) ==
    CASE fn = "image" -> image(url, caption)
      [] fn = "video" -> video(url, caption)
      [] fn = "audio" -> audio(url, caption)
      [] fn = "pdf" -> pdf(url, caption)
      [] fn = "file" -> file(url, caption, <<>>)
      [] fn = "embed" -> embed(url)
      [] fn = "bookmark" -> bookmark(url, caption)

InitUrl == call \in UrlCalls /\ ret = NotYet /\ ServerIdle

CallUrlBuilder ==
    /\ call.fn \in UrlBuilders
    /\ ret = NotYet
    /\ ret' = UrlBuilder(call.fn, call.url, call.caption)
    /\ UNCHANGED <<call, serverVars>>

NextUrl == CallUrlBuilder

SpecUrl == InitUrl /\ [][NextUrl]_vars

(***************************************************************************)
(* Properties of the builders                                              *)
(***************************************************************************)
IsBlock(v) == Has(v, "object") /\ v.object = "block"

\* the text a reader sees in a text block: its runs' contents, in order
VisibleText(block) ==
    LET runs == block.data.rich_text
    IN  Concat([i \in 1..Len(runs) |-> runs[i].content])

\* characters the inline formatter may consume
MarkupChars == {"*", "backtick", "~", "]"}

PlainText(s) == \A i \in 1..Len(s) : s[i][1] \notin MarkupChars

Built == call.fn = "buildCourseBlock" /\ Done

UnknownItem == TypeOf(call.item) \notin RecognizedTypes

NoText == ~Has(call.item, "text") \/ call.item.text = <<>>

HasHttpScheme(url) == LET u == UrlParse(url) IN u.ok /\ u.protocol \in HttpSchemes

UrlBuilt == call.fn \in UrlBuilders /\ Done

\* C3 (amended): each URL builder yields its own media block when the URL
\* parses with an http or https scheme; for every other URL string it yields,
\* without throwing, a paragraph block, whose visible text contains the URL
\* when the URL holds no inline-markup character and at most 1900 characters.
C3_UrlBuilders ==
    UrlBuilt =>
        /\ IsBlock(ret)
        /\ IF HasHttpScheme(call.url)
           THEN ret.type = call.fn
           ELSE /\ ret.type = "paragraph"
                /\ (PlainText(call.url) /\ StrLen(call.url) <= 1900)
                      => Includes(VisibleText(ret), call.url)

C3_Witness ==
    /\ UrlBuilt
    /\ call.fn = "image"
    /\ call.url = FtpUrl
    /\ IsBlock(ret)
    /\ ret.type = "paragraph"
    /\ Includes(VisibleText(ret), FtpUrl)

\* C3 as stated: a media block for an http or https URL, and for every other
\* URL string a paragraph whose text names the URL.
C3_Original ==
    UrlBuilt =>
        /\ IsBlock(ret)
        /\ IF HasHttpScheme(call.url)
           THEN ret.type = call.fn
           ELSE ret.type = "paragraph" /\ Includes(VisibleText(ret), call.url)

(***************************************************************************)
(* Calling the validator                                                   *)
(***************************************************************************)
ParagraphItem == [type |-> "paragraph", text |-> Hi]

MaxParagraphs == 4

Paragraphs(n) == [i \in 1..n |-> ParagraphItem]

GoodQuiz == [type |-> "quiz", options |-> <<Hi, Hi>>, correctIndex |-> 1]

QuizChecks ==
    {[type |-> t] @@ o @@ i :
        t \in {"quiz", "quickQuiz"},
        o \in Opt("options", {<<>>, <<Hi>>, <<Hi, Hi, Hi>>}),
        i \in Opt("correctIndex", {-1, 0, 2, 3, 5})}

ValidateContents ==
    {Paragraphs(n) : n \in 0..MaxParagraphs}
    \cup {<<q>> : q \in QuizChecks}
    \cup {<<[type |-> t, url |-> u]>> : t \in {"image", "pdf", "embed"}, u \in {<<>>, HttpsUrl, FtpUrl}}
    \cup {<<Null>>, <<ParagraphItem, Null>>,
          <<[type |-> "paragraph", text |-> <<W("x", 2001)>>]>>,
          <<[text |-> Hi]>>,
          Paragraphs(2) \o <<GoodQuiz>> \o Paragraphs(3)}

ValidateSections ==
    {t @@ c : t \in Opt("title", {<<>>, Blank, Hi}), c \in Opt("content", ValidateContents)}

GoodSection == [title |-> Hi, content |-> <<ParagraphItem>>]

SectionLists ==
    {<<>>}
    \cup {<<sec>> : sec \in ValidateSections \cup {Null}}
    \cup {<<GoodSection, sec>> : sec \in ValidateSections \cup {Null}}
    \cup {<<sec, GoodSection>> : sec \in ValidateSections \cup {Null}}

Courses ==
    {Undefined}
    \cup {t @@ secs : t \in Opt("title", {<<>>, Blank, Hi}), secs \in Opt("sections", SectionLists)}

BlockTypeCounts ==
    {pa @@ e @@ q : pa \in Opt("paragraph", {1, 3}), e \in Opt("exercice", {1}), q \in Opt("quiz", {1})}

StatsSet ==
    {Undefined}
    \cup {[totalBlocks |-> b, totalSections |-> n] @@ bt :
            b \in {0, 4, 16, 31}, n \in {0, 1, 2}, bt \in Opt("blockTypes", BlockTypeCounts)}

ValidateCalls ==
    {[fn |-> "validateCourse", course |-> c] : c \in Courses}
    \cup {[fn |-> "generateRecommendations", stats |-> st] : st \in StatsSet}

InitValidate == call \in ValidateCalls /\ ret = NotYet /\ ServerIdle

CallValidateCourse ==
    /\ call.fn = "validateCourse"
    /\ ret = NotYet
    /\ ret' = validateCourse(call.course)
    /\ UNCHANGED <<call, serverVars>>

CallGenerateRecommendations ==
    /\ call.fn = "generateRecommendations"
    /\ ret = NotYet
    /\ ret' = generateRecommendations(call.stats)
    /\ UNCHANGED <<call, serverVars>>

NextValidate == CallValidateCourse \/ CallGenerateRecommendations

SpecValidate == InitValidate /\ [][NextValidate]_vars

(***************************************************************************)
(* Properties of the validator                                             *)
(***************************************************************************)
Range(f) == {f[i] : i \in DOMAIN f}

\* validateCourse has returned a report
Validated == call.fn = "validateCourse" /\ Done /\ ~IsThrow(ret)

TitleMissing(c) == ~Has(c, "title") \/ Trim(c.title) = <<>>

SectionsMissing(c) == ~Has(c, "sections") \/ c.sections = <<>>

SectionLacks(sec) ==
    \/ ~Has(sec, "title") \/ sec.title = <<>>
    \/ ~Has(sec, "content") \/ sec.content = <<>>

SectionsOf(c) == IF Has(c, "sections") THEN c.sections ELSE <<>>

\* C8: the report is valid exactly when its errors list is empty, whatever
\* the warnings; the errors list is non-empty when the course title is
\* missing or blank, when there are no sections, and when some section lacks
\* a title or content.
C8_ValidIffNoErrors ==
    Validated =>
        /\ ret.valid <=> Len(ret.errors) = 0
        /\ TitleMissing(call.course) => CourseError("Titre manquant") \in Range(ret.errors)
        /\ SectionsMissing(call.course)
              => CourseError("Au moins une section requise") \in Range(ret.errors)
        /\ \A idx \in DOMAIN SectionsOf(call.course) :
              SectionLacks(call.course.sections[idx])
                 => \E e \in Range(ret.errors) : e.section = idx

\* a course with warnings and no error is valid
C8_Witness ==
    /\ Validated
    /\ ret.valid
    /\ Len(ret.warnings) > 0
    /\ Len(ret.errors) = 0

\* C9 as stated: neither validateCourse nor generateRecommendations throws,
\* whatever malformed input they are given.
C9_Original ==
    (call.fn \in {"validateCourse", "generateRecommendations"} /\ Done) => ~IsThrow(ret)

QuizItem(item) == TypeOf(item) \in {"quiz", "quickQuiz"}

OptionCount(item) == IF Has(item, "options") THEN Len(item.options) ELSE 0

IndexOutOfRange(item) ==
    Has(item, "correctIndex")
    /\ (item.correctIndex < 0 \/ item.correctIndex >= OptionCount(item))

ContentOf(sec) == IF Has(sec, "content") THEN sec.content ELSE <<>>

\* C10 as stated: the report holds an error for every quiz or quickQuiz item
\* whose correctIndex is below 0 or not below the number of options.
C10_Original ==
    Validated =>
        \A idx \in DOMAIN SectionsOf(call.course) :
            \A k \in DOMAIN ContentOf(call.course.sections[idx]) :
                LET item == call.course.sections[idx].content[k]
                IN  (QuizItem(item) /\ IndexOutOfRange(item))
                       => \E e \in Range(ret.errors) :
                             /\ e.section = idx
                             /\ e.msg \in {"Quiz correctIndex invalide",
                                           "Quiz avec trop peu d'options"}

(***************************************************************************)
(* NotionAPI: chunkArray, appendBlocks, createPageWithMeta                 *)
(***************************************************************************)
ChunkSize == 100

\* Variant of chunkArray whose slices run one element too far.
chunkArrayOverlap(array, size) ==
    [k \in 1..((Len(array) + size - 1) \div size) |->
        SubSeq(array, (k - 1) * size + 1, Min({k * size + 1, Len(array)}))]

\* for (let i = ...; i < array.length; i += size) chunks.push(array.slice(i, i + size))
RECURSIVE ChunksFrom(_, _, _)
ChunksFrom(array, size, i) ==
    IF i < Len(array)
    THEN <<Slice(array, i, Min({i + size, Len(array)}))>> \o ChunksFrom(array, size, i + size)
    ELSE <<>>

chunkArray(array, size) == ChunksFrom(array, size, 0)

\* client.blocks.children.append({block_id, children})
AppendCall(pageId, children) ==
    [api |-> "blocks.children.append", target |-> pageId, children |-> children,
     outcome |-> "pending"]

\* client.pages.create(requestData)
CreateCall(data) ==
    [api |-> "pages.create", target |-> data.parent, children |-> ArrOr(data, "children", <<>>),
     extras |-> [properties |-> data.properties] @@ Pick(data, {"icon", "cover"}),
     outcome |-> "pending"]

\* Variant of the loop that swallows a rejected batch and goes on.
LoopStepSwallow(outcome, i, n) == IF i < n THEN "next" ELSE "return"

\* what the for-await loop of appendBlocks does once batch i of n has settled
LoopStep(outcome, i, n) ==
    IF outcome = "rejected" THEN "throw"
    ELSE IF i < n THEN "next" ELSE "return"

\* sending one call to the remote service and suspending on it
Issue(c) ==
    /\ calls' = Append(calls, c)
    /\ inflight' = inflight \cup {Len(calls) + 1}
    /\ settled' = Unsettled

\* the for-await loop of appendBlocks entered with the chunks cs
SendChunks(pageId, cs, success) ==
    /\ chunks' = cs
    /\ IF cs = <<>>
       THEN /\ pc' = "done"
            /\ ci' = 0
            /\ responses' = Append(responses, success)
            /\ UNCHANGED <<calls, inflight, settled>>
       ELSE /\ pc' = "awaiting"
            /\ ci' = 1
            /\ Issue(AppendCall(pageId, cs[1]))
            /\ UNCHANGED responses
    /\ UNCHANGED page

\* appendBlocks(pageId, blocks) up to its first await; with nothing to send
\* it returns and the handler writes its response at once
BeginAppend(pageId, bs, success) ==
    SendChunks(pageId, chunkArray(bs, ChunkSize), success)

(***************************************************************************)
(* The remote service                                                      *)
(***************************************************************************)
RemoteErrors == {"rate_limited", "validation_error"}

RemoteFulfils ==
    \E i \in inflight :
        /\ calls' = [calls EXCEPT ![i].outcome = "ok"]
        /\ inflight' = inflight \ {i}
        /\ page' = IF calls[i].api = "pages.create" THEN calls[i].children
                   ELSE page \o calls[i].children
        /\ settled' = [state |-> "fulfilled"]
        /\ UNCHANGED <<blocks, cursor, call, ret, req, pc, chunks, ci, responses>>

RemoteRejects ==
    \E i \in inflight, m \in RemoteErrors :
        /\ calls' = [calls EXCEPT ![i] = [@ EXCEPT !.outcome = "failed"] @@ [error |-> m]]
        /\ inflight' = inflight \ {i}
        /\ settled' = [state |-> "rejected", message |-> m]
        /\ UNCHANGED <<blocks, cursor, call, ret, req, pc, chunks, ci, page, responses>>

(***************************************************************************)
(* The server's handlers.  One behaviour handles one request: the code      *)
(* between two awaits runs as one step.                                     *)
(***************************************************************************)
Failure(status, error) == [status |-> status, success |-> FALSE, error |-> error]

\* catch (error) { res.status(500).json({ success: false, error: error.message }) }
Caught(thrown) == Failure(500, thrown.throw)

Respond(response) ==
    /\ pc' = "done"
    /\ responses' = Append(responses, response)

PageId == <<W("8a3f", 8), Ch("-"), W("page", 27)>>

DatabaseId == <<W("0123456789abcdef0123456789abcdef", 32)>>

\* the children pushed for the results of the items, in order
Pushed(results) ==
    IF \E i \in 1..Len(results) : IsThrow(results[i])
    THEN results[Min({i \in 1..Len(results) : IsThrow(results[i])})]
    ELSE ListOf(Concat([i \in 1..Len(results) |->
                           IF IsList(results[i]) THEN filterValidBlocks(results[i].list)
                           ELSE AsList(results[i])]))

\* for (const item of content) { result = buildCourseBlock(item); ... push }
\* the blocks pushed, or what the first failing item throws
BuildChildren(content) == Pushed(Map(content, buildCourseBlock))

RawBlock(i) == [object |-> "block", type |-> "paragraph", id |-> i]

RawBlocks(n) == [i \in 1..n |-> RawBlock(i)]

MaxBlocks == 201

AppendBodies == {NoFields} \cup {[blocks |-> RawBlocks(n)] : n \in 0..MaxBlocks}

\* POST /api/page/:pageId/append
PostAppend ==
    \E body \in AppendBodies :
        /\ pc = "idle"
        /\ req' = [route |-> "append", pageId |-> PageId, body |-> body]
        /\ IF ~Has(body, "blocks")
           THEN /\ Respond(Failure(400, "Missing or invalid blocks array"))
                /\ UNCHANGED <<chunks, ci, calls, inflight, settled, page>>
           ELSE BeginAppend(PageId, body.blocks,
                            [status |-> 200, success |-> TRUE,
                             message |-> "Blocks appended successfully"])
        /\ UNCHANGED <<blocks, cursor, call, ret>>

TimedItems(n) == [i \in 1..n |-> [type |-> "estimatedTime", minutes |-> i]]

BrokenComparison == [type |-> "comparison", left |-> [title |-> Hi], right |-> [title |-> Hi]]

BlankParagraph == [type |-> "paragraph", text |-> Blank]

\* items whose blocks have children: toggles around blank paragraphs, a
\* step with a blank description, the two columns of a comparison
NestedContent ==
    <<[type |-> "toggle", text |-> Hi,
       children |-> <<BlankParagraph, ParagraphItem,
                      [type |-> "toggle", text |-> Hi, children |-> <<BlankParagraph>>],
                      [type |-> "bullets", items |-> <<Hi, Blank>>]>>],
      [type |-> "step", stepNumber |-> 2, text |-> Hi, caption |-> Blank],
      [type |-> "comparison", left |-> [title |-> Hi, items |-> <<Hi>>],
       right |-> [title |-> Blank, items |-> <<>>]],
      BlankParagraph>>

ContentBodies ==
    {NoFields}
    \cup {[content |-> c] :
            c \in {<<>>, <<[type |-> "paragraph", text |-> Blank]>>,
                   <<ParagraphItem, [type |-> "bullets", items |-> <<Hi, Blank, Hi>>],
                     [type |-> "codeWithExplanation", code |-> Hi]>>,
                   <<ParagraphItem, Null>>, <<BrokenComparison>>, NestedContent}
               \cup {TimedItems(n) : n \in {ChunkSize, ChunkSize + 1, MaxBlocks}}}

ContentAppended(children) ==
    [status |-> 200, success |-> TRUE, message |-> "Content appended successfully",
     blocksAdded |-> Len(children)]

\* append-content once the children are built (or building them threw)
AppendChildren(children) ==
    IF IsThrow(children)
    THEN /\ Respond(Caught(children))
         /\ UNCHANGED <<chunks, ci, calls, inflight, settled, page>>
    ELSE IF Len(filterValidBlocks(children.list)) = 0
    THEN /\ Respond(Failure(400, "No valid blocks generated from content"))
         /\ UNCHANGED <<chunks, ci, calls, inflight, settled, page>>
    ELSE BeginAppend(PageId, filterValidBlocks(children.list),
                     ContentAppended(filterValidBlocks(children.list)))

\* POST /api/page/:pageId/append-content
PostAppendContent ==
    \E body \in ContentBodies :
        /\ pc = "idle"
        /\ req' = [route |-> "append-content", pageId |-> PageId, body |-> body]
        /\ IF ~Has(body, "content")
           THEN /\ Respond(Failure(400, "Missing or invalid content array"))
                /\ UNCHANGED <<chunks, ci, calls, inflight, settled, page>>
           ELSE AppendChildren(BuildChildren(body.content))
        /\ UNCHANGED <<blocks, cursor, call, ret>>

\* what the handler does for each way the loop can go on
AfterBatch(outcome) ==
    CASE outcome = "throw" ->
            /\ Respond(Failure(500, settled.message))
            /\ UNCHANGED <<ci, calls, inflight, settled>>
      [] outcome = "next" ->
            /\ ci' = ci + 1
            /\ Issue(AppendCall(req.pageId, chunks[ci + 1]))
            /\ UNCHANGED <<pc, responses>>
      [] outcome = "return" ->
            /\ Respond(IF req.route = "append"
                       THEN [status |-> 200, success |-> TRUE,
                             message |-> "Blocks appended successfully"]
                       ELSE ContentAppended(Concat(chunks)))
            /\ UNCHANGED <<ci, calls, inflight, settled>>

\* the handler resumes after the awaited batch has settled
ResumeAppend ==
    /\ pc = "awaiting"
    /\ req.route \in {"append", "append-content"}
    /\ settled.state # "pending"
    /\ AfterBatch(LoopStep(settled.state, ci, Len(chunks)))
    /\ UNCHANGED <<blocks, cursor, call, ret, req, chunks, page>>

\* Variant of the gate that also turns away a course with warnings.
ValidationGateStrict(validation) ==
    IF IsThrow(validation) THEN validation
    ELSE IF ~validation.valid \/ Len(validation.warnings) > 0
    THEN Failure(400, "Validation failed")
         @@ [details |-> validation.errors, warnings |-> validation.warnings]
    ELSE [proceed |-> TRUE]

\* if (!validation.valid) return res.status(400).json({...})
ValidationGate(validation) ==
    IF IsThrow(validation) THEN validation
    ELSE IF ~validation.valid
    THEN Failure(400, "Validation failed")
         @@ [details |-> validation.errors, warnings |-> validation.warnings]
    ELSE [proceed |-> TRUE]

\* Variant of the create-course checks that only looks at the required fields.
CreateCoursePrecheckFieldsOnly(body) ==
    IF StrOr(body, "parentId", <<>>) = <<>> \/ StrOr(body, "title", <<>>) = <<>>
       \/ ~Has(body, "sections")
    THEN Failure(400, "Missing required fields: parentId, title, sections")
    ELSE [proceed |-> TRUE]

\* the checks of create-course before anything is built: the response that
\* ends the request, what validateCourse throws, or the go-ahead
CreateCoursePrecheck(body) ==
    IF StrOr(body, "parentId", <<>>) = <<>> \/ StrOr(body, "title", <<>>) = <<>>
       \/ ~Has(body, "sections")
    THEN Failure(400, "Missing required fields: parentId, title, sections")
    ELSE ValidationGate(validateCourse(body))

\* divider, heading and optional description of a section
SectionHead(section) ==
    <<divider,
      heading1(S(StrOr(section, "title", <<>>)),
               [color |-> NameOr(section, "color", "blue")] @@ Pick(section, {"toggleable"}))>>
    \o (IF StrOr(section, "description", <<>>) # <<>>
        THEN AsList(paragraph(S(section.description), [color |-> "gray"]))
        ELSE <<>>)

\* the head of the section followed by the blocks of its content
SectionWith(section, built) ==
    IF IsThrow(built) THEN built ELSE ListOf(SectionHead(section) \o built.list)

\* the blocks of one section, or what building them throws
SectionBlocks(section) ==
    IF section = Null \/ section = Undefined THEN TypeErrorOn("title")
    ELSE IF ~Has(section, "content") THEN Throw("TypeError: section.content is not iterable")
    ELSE SectionWith(section, BuildChildren(section.content))

\* the course metadata, one column each
MetaColumns(body) ==
    (IF NumOr(body, "estimatedTime", 0) # 0
     THEN << <<estimatedTime(body.estimatedTime)>> >> ELSE <<>>)
    \o (IF Len(ArrOr(body, "prerequisites", <<>>)) > 0
        THEN << <<prerequisites(body.prerequisites)>> >> ELSE <<>>)
    \o (IF Len(ArrOr(body, "objectives", <<>>)) > 0
        THEN << <<learningObjectives(body.objectives)>> >> ELSE <<>>)

\* breadcrumb, table of contents, divider, and the description when given
CourseHeader(body) ==
    <<breadcrumb, tableOfContents("gray"), divider>>
    \o (IF StrOr(body, "description", <<>>) # <<>>
        THEN <<callout(S(body.description),
                       [icon |-> "emoji_book", color |-> "blue_background"])>>
        ELSE <<>>)

\* Variant of the metadata blocks that is always closed by a divider.
CourseMetaAlwaysClosed(metaColumns) ==
    (IF Len(metaColumns) = 0 THEN <<>>
     ELSE IF Len(metaColumns) = 1 THEN metaColumns[1]
     ELSE <<columnList(metaColumns)>>) \o <<divider>>

\* one column alone is spread, several make a column list; then a divider
CourseMeta(metaColumns) ==
    IF Len(metaColumns) = 0 THEN <<>>
    ELSE (IF Len(metaColumns) = 1 THEN metaColumns[1]
          ELSE <<columnList(metaColumns)>>) \o <<divider>>

CourseFooter ==
    <<divider,
      callout(S(<<W("Felicitations", 13), Ch(" "), Ch("!")>>),
              [icon |-> "emoji_party", color |-> "green_background"])>>

\* the page's children around the blocks of the sections
Assembled(body, sections) ==
    IF \E i \in 1..Len(sections) : IsThrow(sections[i])
    THEN sections[Min({i \in 1..Len(sections) : IsThrow(sections[i])})]
    ELSE ListOf(filterValidBlocks(
             CourseHeader(body) \o CourseMeta(MetaColumns(body))
             \o Concat([i \in 1..Len(sections) |-> sections[i].list]) \o CourseFooter))

\* the children of the course page, or what building them throws
CourseChildren(body) == Assembled(body, Map(body.sections, SectionBlocks))

\* parentId.length === 32 && !parentId.includes('-')
IsDatabaseId(parentId) == StrLen(parentId) = 32 /\ ~Includes(parentId, <<Ch("-")>>)

\* pageData as handed to createPageWithMeta
PageData(body, children) ==
    [parent |-> IF IsDatabaseId(body.parentId) THEN [database_id |-> body.parentId]
                ELSE [page_id |-> body.parentId],
     properties |-> IF IsDatabaseId(body.parentId) THEN [Name |-> body.title]
                    ELSE [title |-> body.title],
     children |-> children]
    @@ (IF NameOr(body, "icon", "") # "" THEN [icon |-> body.icon] ELSE NoFields)
    @@ (IF StrOr(body, "cover", <<>>) # <<>> THEN [cover |-> body.cover] ELSE NoFields)

MaxItems == 94

\* n paragraph items "p1", ..., "pn"
NumberedParagraphs(n) ==
    [i \in 1..n |-> [type |-> "paragraph", text |-> <<W("p", 1)>> \o NumStr(i)]]

ServerContents ==
    {<<>>, <<ParagraphItem>>, <<GoodQuiz>>,
     <<ParagraphItem, [type |-> "bullets", items |-> <<Hi, Hi>>],
       [type |-> "paragraph", text |-> Blank], [type |-> "foobar"]>>,
     <<[type |-> "quiz", options |-> <<Hi, Hi, Hi>>, correctIndex |-> -1]>>,
     <<[type |-> "quiz", options |-> <<Hi>>]>>,
     <<[type |-> "image", url |-> FtpUrl]>>,
     <<[type |-> "embed", url |-> FtpUrl]>>,
     <<Null>>, <<BrokenComparison>>, NumberedParagraphs(MaxParagraphs), NestedContent,
     <<[type |-> "image"], ParagraphItem>>,
     <<[type |-> "video", url |-> HttpsUrl], [type |-> "pdf", url |-> <<>>]>>,
     <<[type |-> "audio", url |-> HttpsUrl, caption |-> Hi]>>,
     <<ParagraphItem, ParagraphItem, ParagraphItem, GoodQuiz>>}
    \cup {TimedItems(n) : n \in {MaxItems - 1, MaxItems}}

ServerSections ==
    {t @@ c @@ d : t \in Opt("title", {Hi}), c \in Opt("content", ServerContents),
                   d \in Opt("description", {Hi, Blank})}

ServerSectionLists ==
    {<<>>} \cup {<<sec>> : sec \in ServerSections} \cup {<<GoodSection, sec>> : sec \in ServerSections}

CourseMetas ==
    {NoFields, [description |-> Hi], [estimatedTime |-> 45],
     [estimatedTime |-> 45, prerequisites |-> <<Hi>>, objectives |-> <<Hi>>],
     [description |-> Hi, prerequisites |-> <<>>, icon |-> "emoji_book", cover |-> HttpsUrl],
     [estimatedTime |-> 0, objectives |-> <<Hi>>]}

CreateBodies ==
    {pa @@ t @@ secs @@ meta :
        pa \in Opt("parentId", {PageId, DatabaseId}), t \in Opt("title", {Blank, Hi}),
        secs \in Opt("sections", ServerSectionLists), meta \in CourseMetas}

\* createPageWithMeta called with the children built
SendCourse(body, children) ==
    IF IsThrow(children)
    THEN /\ Respond(Caught(children))
         /\ UNCHANGED <<calls, inflight, settled>>
    ELSE /\ pc' = "awaiting"
         /\ Issue(CreateCall(PageData(body, children.list)))
         /\ UNCHANGED responses

\* create-course after its checks
AfterPrecheck(body, check) ==
    IF IsThrow(check)
    THEN /\ Respond(Caught(check))
         /\ UNCHANGED <<calls, inflight, settled>>
    ELSE IF ~Has(check, "proceed")
    THEN /\ Respond(check)
         /\ UNCHANGED <<calls, inflight, settled>>
    ELSE SendCourse(body, CourseChildren(body))

\* POST /api/create-course
PostCreateCourse ==
    \E body \in CreateBodies :
        /\ pc = "idle"
        /\ req' = [route |-> "create-course", body |-> body]
        /\ AfterPrecheck(body, CreateCoursePrecheck(body))
        /\ UNCHANGED <<blocks, cursor, call, ret, chunks, ci, page>>

\* the handler resumes after createPageWithMeta has settled
ResumeCreateCourse ==
    /\ pc = "awaiting"
    /\ req.route = "create-course"
    /\ settled.state # "pending"
    /\ IF settled.state = "rejected"
       THEN Respond(Failure(500, settled.message))
       ELSE Respond([status |-> 200, success |-> TRUE,
                     stats |-> [sectionsCreated |-> Len(req.body.sections),
                                blocksCreated |-> Len(calls[1].children)]])
    /\ UNCHANGED <<blocks, cursor, call, ret, req, chunks, ci, calls, inflight, settled, page>>

(***************************************************************************)
(* POST /api/dry-run                                                       *)
(***************************************************************************)
RECURSIVE SumSeq(_)
SumSeq(ns) == IF ns = <<>> THEN 0 ELSE Head(ns) + SumSeq(Tail(ns))

\* sections?.forEach / content?.forEach: nothing to visit when absent
DrySections(course) == IF Has(course, "sections") THEN course.sections ELSE <<>>

DryContent(section) == IF Has(section, "content") THEN section.content ELSE <<>>

\* what reading section.title or item.type throws outside the inner try,
\* Null when the section is visited to its end
SectionAbort(section) ==
    IF section = Null \/ section = Undefined THEN TypeErrorOn("title")
    ELSE IF \E k \in 1..Len(DryContent(section)) :
                DryContent(section)[k] = Null \/ DryContent(section)[k] = Undefined
    THEN TypeErrorOn("type")
    ELSE Null

\* the items of all the sections, in the order they are visited
DryItems(sections) == Concat([i \in 1..Len(sections) |-> DryContent(sections[i])])

\* Variant without the try around buildCourseBlock: the first exception of
\* a builder ends the analysis too.
DryAbortUnguarded(sections) ==
    IF \E i \in 1..Len(sections) : SectionAbort(sections[i]) # Null
    THEN SectionAbort(sections[Min({i \in 1..Len(sections) : SectionAbort(sections[i]) # Null})])
    ELSE IF \E k \in 1..Len(DryItems(sections)) : IsThrow(buildCourseBlock(DryItems(sections)[k]))
    THEN buildCourseBlock(DryItems(sections)[Min({k \in 1..Len(DryItems(sections)) :
                                                    IsThrow(buildCourseBlock(DryItems(sections)[k]))})])
    ELSE Null

\* the exception that ends the analysis, Null when there is none
DryAbort(sections) ==
    IF \A i \in 1..Len(sections) : SectionAbort(sections[i]) = Null THEN Null
    ELSE SectionAbort(sections[Min({i \in 1..Len(sections) : SectionAbort(sections[i]) # Null})])

\* catch (e) { analysis.errors.push(...) } around buildCourseBlock(item)
GenerationErrors(item, idx, result) ==
    IF IsThrow(result)
    THEN <<[section |-> idx, msg |-> "Erreur generation bloc", type |-> TypeOf(item),
            cause |-> result.throw]>>
    ELSE <<>>

\* if (result) generatedBlocks += Array.isArray(result) ? result.length : 1
GeneratedCount(result) ==
    IF IsThrow(result) \/ result = Null THEN 0
    ELSE IF IsList(result) THEN Len(result.list) ELSE 1

DryQuizWarnings(item, idx) ==
    IF TypeOf(item) \in {"quiz", "quickQuiz"}
       /\ (~Has(item, "options") \/ Len(item.options) < 2)
    THEN <<SectionError(idx, "Quiz avec trop peu d'options")>> ELSE <<>>

DryQuizErrors(item, idx) ==
    IF TypeOf(item) \in {"quiz", "quickQuiz"}
       /\ Has(item, "correctIndex")
       /\ item.correctIndex >= (IF Has(item, "options") THEN Len(item.options) ELSE 0)
    THEN <<SectionError(idx, "Quiz correctIndex invalide")>> ELSE <<>>

DryUrlErrors(item, idx) ==
    IF TypeOf(item) \in {"image", "video"}
       /\ Has(item, "url") /\ item.url # <<>> /\ ~isValidUrl(item.url)
    THEN <<SectionError(idx, "URL invalide pour " \o TypeOf(item))>> ELSE <<>>

\* the errors pushed while the item is analysed
DryItemErrors(item, idx) ==
    GenerationErrors(item, idx, buildCourseBlock(item))
    \o DryQuizErrors(item, idx) \o DryUrlErrors(item, idx)

\* the errors pushed while the section is analysed
DrySectionErrors(section, idx) ==
    (IF StrOr(section, "title", <<>>) = <<>>
     THEN <<SectionError(idx, "Titre manquant")>> ELSE <<>>)
    \o Concat([k \in 1..Len(DryContent(section)) |-> DryItemErrors(DryContent(section)[k], idx)])

DrySectionWarnings(section, idx) ==
    Concat([k \in 1..Len(DryContent(section)) |-> DryQuizWarnings(DryContent(section)[k], idx)])

DrySectionGenerated(section) ==
    SumSeq([k \in 1..Len(DryContent(section)) |->
               GeneratedCount(buildCourseBlock(DryContent(section)[k]))])

\* stats.blockTypes: how many items carry each type
BlockTypesOf(items) ==
    [t \in {TypeOf(items[k]) : k \in 1..Len(items)} |->
        Cardinality({k \in 1..Len(items) : TypeOf(items[k]) = t})]

\* the analysis of the sections, all visited
Analysis(sections, errors) ==
    [status |-> 200,
     valid |-> errors = <<>>,
     errors |-> errors,
     warnings |-> Concat([i \in 1..Len(sections) |-> DrySectionWarnings(sections[i], i)]),
     stats |-> [sections |-> Len(sections),
                totalBlocks |-> Len(DryItems(sections)),
                blockTypes |-> BlockTypesOf(DryItems(sections))],
     generatedBlocks |-> SumSeq([i \in 1..Len(sections) |-> DrySectionGenerated(sections[i])])]

\* res.json(analysis), or the answer of the outer catch
DryRunResponse(sections) ==
    IF DryAbort(sections) # Null
    THEN [status |-> 500, valid |-> FALSE, error |-> DryAbort(sections).throw]
    ELSE Analysis(sections,
                  Concat([i \in 1..Len(sections) |-> DrySectionErrors(sections[i], i)]))

DryRunContents ==
    ValidateContents
    \cup {<<BrokenComparison, ParagraphItem, [type |-> "bullets", items |-> <<Hi, Hi>>]>>,
          <<ParagraphItem, BrokenComparison>>,
          <<[type |-> "video", url |-> FtpUrl]>>, <<[type |-> "audio", url |-> FtpUrl]>>}

DryRunSections ==
    {t @@ c : t \in Opt("title", {<<>>, Hi}), c \in Opt("content", DryRunContents)}

DryRunBodies ==
    {t @@ secs :
        t \in Opt("title", {Hi}),
        secs \in Opt("sections",
                     {<<>>, <<Null>>}
                     \cup {<<sec>> : sec \in DryRunSections}
                     \cup {<<sec, GoodSection>> : sec \in DryRunSections})}

\* POST /api/dry-run
PostDryRun ==
    \E body \in DryRunBodies :
        /\ pc = "idle"
        /\ req' = [route |-> "dry-run", body |-> body]
        /\ Respond(DryRunResponse(DrySections(body)))
        /\ UNCHANGED <<blocks, cursor, call, ret, chunks, ci, calls, inflight, settled, page>>

Init == call = NoCall /\ ret = NotYet /\ ServerIdle

Next ==
    \/ PostAppend
    \/ PostAppendContent
    \/ PostCreateCourse
    \/ PostDryRun
    \/ RemoteFulfils
    \/ RemoteRejects
    \/ ResumeAppend
    \/ ResumeCreateCourse

Spec == Init /\ [][Next]_vars

(***************************************************************************)
(* Properties of the server and of the remote calls it issues              *)
(***************************************************************************)
AppendRoutes == {"append", "append-content"}

\* validateCourse reports at least one error for the body
ReportsErrors(body) ==
    /\ ~IsThrow(validateCourse(body))
    /\ Len(validateCourse(body).errors) > 0

\* C4: on the create-course path, when validateCourse reports at least one
\* error for the request body, no remote call is ever issued for the request
\* and the request ends with a failure response.
C4_NoRemoteCallWhenInvalid ==
    (req.route = "create-course" /\ ReportsErrors(req.body)) =>
        /\ calls = <<>>
        /\ inflight = {}
        /\ pc = "done"
        /\ Len(responses) = 1
        /\ ~responses[1].success
        /\ responses[1].status = 400

\* a body with its required fields whose validation fails
C4_Witness ==
    /\ req.route = "create-course"
    /\ ReportsErrors(req.body)
    /\ pc = "done"
    /\ calls = <<>>
    /\ responses = <<Failure(400, "Validation failed")
                     @@ [details |-> validateCourse(req.body).errors,
                         warnings |-> validateCourse(req.body).warnings]>>

\* C5 as stated: every remote create or append call carries at most 100
\* top-level blocks.
C5_Original ==
    \A i \in DOMAIN calls : Len(calls[i].children) <= ChunkSize

\* the blocks handed to appendBlocks by the request being handled
AppendInput ==
    IF req.route = "append" THEN req.body.blocks
    ELSE filterValidBlocks(BuildChildren(req.body.content).list)

\* the children of the first n calls, in issue order
Sent(n) == Concat([i \in 1..n |-> calls[i].children])

\* C6: within one appendBlocks call the batches are issued one at a time in
\* input order: a batch is sent only once the one before it has completed,
\* no two batches are in flight together, every batch but the last holds
\* exactly 100 blocks, and the batches concatenated in issue order give back
\* the input sequence.
C6_BatchesInOrder ==
    (req.route \in AppendRoutes /\ calls # <<>>) =>
        /\ Cardinality(inflight) <= 1
        /\ inflight \subseteq {Len(calls)}
        /\ \A i \in 1..(Len(calls) - 1) :
              /\ calls[i].outcome # "pending"
              /\ Len(calls[i].children) = ChunkSize
        /\ Len(calls[Len(calls)].children) \in 1..ChunkSize
        /\ Sent(Len(calls)) = SubSeq(AppendInput, 1, Len(Sent(Len(calls))))
        /\ (pc = "done" /\ responses[1].success) => Sent(Len(calls)) = AppendInput

\* 201 blocks appended in three batches
C6_Witness ==
    /\ req.route = "append"
    /\ Len(calls) = 3
    /\ Len(req.body.blocks) = 2 * ChunkSize + 1
    /\ pc = "done"
    /\ responses[1].success
    /\ page = req.body.blocks

\* C7: when the remote call for batch k of an appendBlocks call fails, no
\* batch after k is issued and the call is not retried, batches 1..k-1 stay
\* appended and no other call is made, and the caller receives exactly one
\* failure, which carries the underlying error message.
C7_FailureStopsAppend ==
    req.route \in AppendRoutes =>
        \A k \in DOMAIN calls :
            calls[k].outcome = "failed" =>
                /\ Len(calls) = k
                /\ inflight = {}
                /\ \A j \in 1..k : calls[j].api = "blocks.children.append"
                /\ \A j \in 1..(k - 1) : calls[j].outcome = "ok"
                /\ page = Sent(k - 1)
                /\ pc \in {"awaiting", "done"}
                /\ pc = "awaiting" =>
                      /\ responses = <<>>
                      /\ settled = [state |-> "rejected", message |-> calls[k].error]
                /\ pc = "done" => responses = <<Failure(500, calls[k].error)>>

\* the second batch failed: the first hundred blocks stay on the page and
\* the caller has its failure
C7_Witness ==
    /\ req.route \in AppendRoutes
    /\ Len(calls) = 2
    /\ calls[2].outcome = "failed"
    /\ Len(page) = ChunkSize
    /\ pc = "done"
    /\ responses = <<Failure(500, "rate_limited")>>

(***************************************************************************)
(* Calling the quiz template                                               *)
(***************************************************************************)
OptA == <<W("a", 1)>>

OptB == <<W("b", 1)>>

OptC == <<W("c", 1)>>

Padded == <<Ch(" "), W("a", 1), Ch(" ")>>

QuizQuestions == {<<W("Q", 1)>>, <<W("quiz_capitalised", 4), Ch(":"), Ch(" "), W("Q", 1)>>}

OptionLists ==
    {<<>>, <<OptA>>, <<OptA, OptB>>, <<OptA, OptB, OptC>>, <<Padded, OptB>>,
     <<Emphasis, OptB, OptC>>}

MaxIndex == 5

QuizCalls ==
    {[fn |-> "quickQuiz", question |-> q, correctIndex |-> i] @@ o :
        q \in QuizQuestions, i \in -1..MaxIndex, o \in Opt("options", OptionLists)}

InitQuiz == call \in QuizCalls /\ ret = NotYet /\ ServerIdle

\* quickQuiz(question, options, correctIndex): !options takes the branch of
\* the list that is too short
CallQuickQuiz ==
    /\ call.fn = "quickQuiz"
    /\ ret = NotYet
    /\ ret' = quickQuiz(call.question, ArrOr(call, "options", <<>>), call.correctIndex)
    /\ UNCHANGED <<call, serverVars>>

NextQuiz == CallQuickQuiz

SpecQuiz == InitQuiz /\ [][NextQuiz]_vars

QuizBuilt == call.fn = "quickQuiz" /\ Done

GivenOptions == IF Has(call, "options") THEN call.options ELSE <<>>

\* C11: with fewer than 2 options (absent, empty or one-element list)
\* quickQuiz returns a plain paragraph error block and never a quiz callout;
\* with 2 or more options it returns a quiz callout.
C11_QuizNeedsTwoOptions ==
    QuizBuilt =>
        /\ IsBlock(ret)
        /\ IF Len(GivenOptions) < 2
           THEN /\ ret.type = "paragraph"
                /\ VisibleText(ret) = QuizInvalidText
                /\ ~Has(ret.data, "children")
           ELSE /\ ret.type = "callout"
                /\ ret.data.icon = "emoji_brain"

\* quickQuiz("Q", ["a"], 0) gives the error paragraph
C11_Witness ==
    /\ QuizBuilt
    /\ Has(call, "options")
    /\ call.options = <<OptA>>
    /\ call.correctIndex = 0
    /\ ret.type = "paragraph"

\* the letter of position i (from 0) in the alphabet
ExpectedLetter(i) == <<"A", "B", "C">>[i + 1]

\* the index the answer must name: the given one when in range, else 0
ExpectedIndex ==
    IF call.correctIndex \in 0..(Len(call.options) - 1) THEN call.correctIndex ELSE 0

\* the text the option has once its surrounding spaces are removed
Named(i) == Trim(call.options[i + 1])

AnswerPrefix ==
    <<W("La", 2), Ch(" "), W("bonne", 5), Ch(" "), W("reponse", 7), Ch(" "), W("est", 3), Ch(" ")>>

\* C12: with n >= 2 options quickQuiz letters the options A, B, C... by
\* position, and the answer callout nested in the toggle names the letter and
\* the text of option correctIndex, or of option 0 ("A) a") when correctIndex
\* is outside 0..n-1.  Option texts with inline markup are rendered by the
\* formatter, so their text is compared only when it holds none.
C12_QuizLettersAndClamp ==
    (QuizBuilt /\ Len(GivenOptions) >= 2) =>
        /\ Len(ret.data.children) = Len(call.options) + 1
        /\ \A i \in 0..(Len(call.options) - 1) :
              /\ ret.data.children[i + 1].type = "bulleted_list_item"
              /\ StartsWith(VisibleText(ret.data.children[i + 1]),
                            <<Ch(ExpectedLetter(i)), Ch(")")>>)
              /\ PlainText(Named(i)) =>
                    VisibleText(ret.data.children[i + 1])
                       = <<Ch(ExpectedLetter(i)), Ch(")"), Ch(" ")>> \o Named(i)
        /\ ret.data.children[Len(call.options) + 1].type = "toggle"
        /\ Len(ret.data.children[Len(call.options) + 1].data.children) = 1
        /\ ret.data.children[Len(call.options) + 1].data.children[1].type = "callout"
        /\ Includes(VisibleText(ret.data.children[Len(call.options) + 1].data.children[1]),
                    <<Ch(ExpectedLetter(ExpectedIndex)), Ch(")")>>)
        /\ PlainText(Named(ExpectedIndex)) =>
              VisibleText(ret.data.children[Len(call.options) + 1].data.children[1])
                 = AnswerPrefix \o <<Ch(ExpectedLetter(ExpectedIndex)), Ch(")"), Ch(" ")>>
                   \o Named(ExpectedIndex)

\* quickQuiz("Q", ["a", "b", "c"], 5): the answer names "A) a"
C12_Witness ==
    /\ QuizBuilt
    /\ Has(call, "options")
    /\ call.options = <<OptA, OptB, OptC>>
    /\ call.correctIndex = MaxIndex
    /\ ret.type = "callout"
    /\ VisibleText(ret.data.children[4].data.children[1])
          = AnswerPrefix \o <<Ch("A"), Ch(")"), Ch(" "), W("a", 1)>>

(***************************************************************************)
(* Calling the inline-text formatter                                       *)
(***************************************************************************)
Strong(s) == <<Ch("*"), Ch("*")>> \o s \o <<Ch("*"), Ch("*")>>

Emph(s) == <<Ch("*")>> \o s \o <<Ch("*")>>

And == <<Ch(" "), W("and", 3), Ch(" ")>>

\* "**a** and *b*"
StrongAndEmph == Strong(OptA) \o And \o Emph(OptB)

TextLeads == {<<>>, <<Ch(" ")>>}

TextHeads ==
    {<<>>, OptA, Strong(OptA), Emph(OptA), Strong(<<Ch(" ")>>),
     <<W("x", MaxRunLen - 1)>>, <<W("x", MaxRunLen)>>, <<W("x", MaxRunLen + 1)>>,
     <<W("x", TruncLen), W("y", 4)>>}

TextMids == {<<>>, And}

TextTails ==
    {<<>>, Emph(OptB), <<Backtick, W("c", 1), Backtick>>,
     <<Ch("~"), Ch("~"), W("s", 1), Ch("~"), Ch("~")>>,
     <<Ch("["), W("t", 1), Ch("]"), Ch("("), W("u", 1), Ch(")")>>}

TextEnds == {<<>>, <<Ch(" ")>>, <<Ch(" "), Ch("\n")>>}

FormatTexts ==
    {l \o h \o m \o t \o e :
        l \in TextLeads, h \in TextHeads, m \in TextMids, t \in TextTails, e \in TextEnds}

FormatCalls ==
    {[fn |-> "richText", content |-> s, options |-> o] :
        s \in FormatTexts, o \in {NoFields, [bold |-> TRUE]}}
    \cup {[fn |-> "parseFormattedText", content |-> s] : s \in FormatTexts}

InitFormat == call \in FormatCalls /\ ret = NotYet /\ ServerIdle

\* richText(content, options): the run it returns
CallRichText ==
    /\ call.fn = "richText"
    /\ ret = NotYet
    /\ ret' = [runs |-> <<richText(call.content, call.options)>>]
    /\ UNCHANGED <<call, serverVars>>

\* parseFormattedText(text): the runs it returns
CallParseFormattedText ==
    /\ call.fn = "parseFormattedText"
    /\ ret = NotYet
    /\ ret' = [runs |-> parseFormattedText(call.content)]
    /\ UNCHANGED <<call, serverVars>>

NextFormat == CallRichText \/ CallParseFormattedText

SpecFormat == InitFormat /\ [][NextFormat]_vars

Formatted == call.fn \in {"richText", "parseFormattedText"} /\ Done

\* C13: no run produced by parseFormattedText or richText has empty
\* content, and an empty or whitespace-only input yields exactly one run
\* whose content is a single space.
C13_NoEmptyRun ==
    Formatted =>
        /\ \A i \in 1..Len(ret.runs) : StrLen(ret.runs[i].content) > 0
        /\ Trim(call.content) = <<>> =>
              /\ Len(ret.runs) = 1
              /\ ret.runs[1].content = <<Ch(" ")>>

\* a bold span around a single space gives one run holding a space
C13_Witness ==
    /\ Formatted
    /\ call.fn = "parseFormattedText"
    /\ call.content = Strong(<<Ch(" ")>>)
    /\ Len(ret.runs) = 1
    /\ ret.runs[1].content = <<Ch(" ")>>

RichTextDone == call.fn = "richText" /\ Done

Overlong == StrLen(call.content) > MaxRunLen

\* C14: a richText input longer than 2000 characters gives a run of at
\* most 2000 characters; when the input is still longer than 2000
\* characters after trimming, the content is the first 1997 characters of
\* the trimmed input followed by "...", and otherwise the trimmed input
\* itself, without a marker.
C14_TruncatesTrimmedContent ==
    RichTextDone /\ Overlong =>
        /\ StrLen(ret.runs[1].content) <= MaxRunLen
        /\ StrLen(Trim(call.content)) > MaxRunLen =>
              /\ ret.runs[1].content = Substring(Trim(call.content), TruncLen) \o Ellipsis
              /\ StrLen(ret.runs[1].content) = MaxRunLen
        /\ StrLen(Trim(call.content)) <= MaxRunLen =>
              ret.runs[1].content = Trim(call.content)

\* a leading space before 2001 characters: the cut starts after the space
C14_Witness ==
    /\ RichTextDone
    /\ call.content = <<Ch(" "), W("x", MaxRunLen + 1)>>
    /\ ret.runs[1].content = <<W("x", TruncLen)>> \o Ellipsis

\* C14 as stated: every input longer than 2000 characters gives the first
\* 1997 characters of the input followed by "...".
C14_Original ==
    RichTextDone /\ Overlong =>
        /\ StrLen(ret.runs[1].content) <= MaxRunLen
        /\ ret.runs[1].content = Substring(call.content, TruncLen) \o Ellipsis

ParsedStrongAndEmph ==
    call.fn = "parseFormattedText" /\ Done /\ call.content = StrongAndEmph

\* C15 as stated: "**a** and *b*" gives three runs, bold "a", plain
\* " and " with its spaces, italic "b".
C15_Original ==
    ParsedStrongAndEmph =>
        /\ Len(ret.runs) = 3
        /\ ret.runs[1].content = OptA
        /\ ret.runs[1].annotations = {"bold"}
        /\ ret.runs[2].content = And
        /\ ret.runs[2].annotations = {}
        /\ ret.runs[3].content = OptB
        /\ ret.runs[3].annotations = {"italic"}

\* What parseFormattedText returns for "**a** and *b*": the italic pattern
\* matches "**a*" and "* and *", both overlapping the bold token, so "*b*"
\* stays in the trimmed plain remainder.
StrongAndEmphParsed ==
    ParsedStrongAndEmph =>
        /\ Len(ret.runs) = 2
        /\ ret.runs[1].content = OptA
        /\ ret.runs[1].annotations = {"bold"}
        /\ ret.runs[2].content = <<W("and", 3), Ch(" ")>> \o Emph(OptB)
        /\ ret.runs[2].annotations = {}

(***************************************************************************)
(* Calling the exercise template                                           *)
(***************************************************************************)
FrenchLabels ==
    {<<W("exercice_capitalised", 8)>>, <<W("exercice", 8)>>, <<W("exercice_upper", 8)>>}

\* "Exercise", the English spelling
EnglishLabel == <<W("exercise_capitalised", 8)>>

LabelSeps == {<<Ch(":"), Ch(" ")>>, <<Ch(" "), Ch(":")>>, <<Ch(":")>>}

TitleLeads == {<<>>, <<Emoji("emoji_pencil"), Ch(" ")>>}

TitleRests == {<<>>, <<W("Add", 3)>>}

\* "function add(a,b){...}"
SolutionCode == <<W("function", 8), Ch(" "), W("add(a,b){...}", 13)>>

Solutions ==
    {<<>>, SolutionCode, <<Ch(" ")>> \o SolutionCode \o <<Newline>>, <<Ch(" "), Ch(" ")>>}

ExerciceCalls ==
    {[fn |-> "exercice", lead |-> ld, label |-> lb, sep |-> sp, rest |-> r,
      instructions |-> ins, solution |-> sol] :
        ld \in TitleLeads, lb \in FrenchLabels \cup {EnglishLabel}, sp \in LabelSeps,
        r \in TitleRests, ins \in {<<>>, <<Hi, Blank>>}, sol \in Solutions}
    \cup
    {[fn |-> "exercice", lead |-> ld, label |-> <<>>, sep |-> <<>>, rest |-> r,
      instructions |-> ins, solution |-> sol] :
        ld \in TitleLeads, r \in TitleRests, ins \in {<<>>, <<Hi, Blank>>},
        sol \in Solutions}

TitleOf(c) == c.lead \o c.label \o c.sep \o c.rest

InitExercice == call \in ExerciceCalls /\ ret = NotYet /\ ServerIdle

\* exercice(title, instructions, solution)
CallExercice ==
    /\ call.fn = "exercice"
    /\ ret = NotYet
    /\ ret' = exercice(TitleOf(call), call.instructions, call.solution)
    /\ UNCHANGED <<call, serverVars>>

NextExercice == CallExercice

SpecExercice == InitExercice /\ [][NextExercice]_vars

ExerciceBuilt == call.fn = "exercice" /\ Done

\* the text a run shows for the string s
ShownAs(s) == IF Trim(s) = <<>> THEN <<Ch(" ")>> ELSE Trim(s)

LastChild(block) == block.data.children[Len(block.data.children)]

\* the last child is a toggle whose only child is a code block showing s
EndsWithSolution(block, s) ==
    /\ Has(block.data, "children")
    /\ block.data.children # <<>>
    /\ LastChild(block).type = "toggle"
    /\ Len(LastChild(block).data.children) = 1
    /\ LastChild(block).data.children[1].type = "code"
    /\ VisibleText(LastChild(block).data.children[1]) = s

\* the title the callout is to show after its label
ExpectedTitle ==
    IF call.label = EnglishLabel
    THEN TrimEnd(call.label \o call.sep \o call.rest)
    ELSE Trim(call.rest)

CourseRequested == req.route = "create-course" /\ pc # "idle"

\* the required fields are there and validateCourse finds warnings only
OnlyWarnings(body) ==
    /\ StrOr(body, "parentId", <<>>) # <<>>
    /\ StrOr(body, "title", <<>>) # <<>>
    /\ Has(body, "sections")
    /\ ~IsThrow(validateCourse(body))
    /\ validateCourse(body).valid
    /\ Len(validateCourse(body).warnings) >= 1

IsTextParagraph(item) ==
    /\ item # Null
    /\ TypeOf(item) = "paragraph"
    /\ Trim(StrOr(item, "text", <<>>)) # <<>>

\* every item of every section is a paragraph item with a text to show
AllParagraphs(body) ==
    \A i \in 1..Len(body.sections) :
        \A k \in 1..Len(body.sections[i].content) :
            IsTextParagraph(body.sections[i].content[k])

TextOfItem(item) == Trim(item.text)

\* the texts of the paragraph items, section after section
ParagraphTexts(body) ==
    Concat([i \in 1..Len(body.sections) |-> Map(body.sections[i].content, TextOfItem)])

\* a paragraph compiled from an item: the section descriptions are gray
IsItemParagraph(block) == block.type = "paragraph" /\ block.data.color = "default"

\* C17: a create-course request whose course gets warnings and no error
\* is not turned away: its blocks are compiled and handed to one
\* pages.create call, and when the sections hold only paragraph items with
\* a text, the paragraph blocks of the call show those texts, one per item
\* and in input order.
C17_WarningsDoNotBlock ==
    CourseRequested /\ OnlyWarnings(req.body) =>
        /\ Len(calls) = 1
        /\ calls[1].api = "pages.create"
        /\ \A i \in 1..Len(responses) : responses[i].status # 400
        /\ AllParagraphs(req.body) =>
              Map(SelectSeq(calls[1].children, IsItemParagraph), VisibleText)
                  = ParagraphTexts(req.body)

\* one section of four paragraphs "p1" to "p4"
C17_Witness ==
    /\ CourseRequested
    /\ OnlyWarnings(req.body)
    /\ Len(req.body.sections) = 1
    /\ req.body.sections[1].content = NumberedParagraphs(MaxParagraphs)
    /\ Len(calls) = 1
    /\ Len(SelectSeq(calls[1].children, IsItemParagraph)) = MaxParagraphs

CourseSubmitted == req.route = "create-course" /\ Len(calls) = 1

BlockType(block) == block.type

Types(bs) == Map(bs, BlockType)

\* how many of time, prerequisites and objectives have something to show
MetaCount(body) ==
    (IF NumOr(body, "estimatedTime", 0) # 0 THEN 1 ELSE 0)
    + (IF ArrOr(body, "prerequisites", <<>>) # <<>> THEN 1 ELSE 0)
    + (IF ArrOr(body, "objectives", <<>>) # <<>> THEN 1 ELSE 0)

\* how many of time, prerequisites and objectives are present
MetaGiven(body) == Cardinality(DOMAIN body \cap {"estimatedTime", "prerequisites", "objectives"})

\* the types of the metadata block for n columns
MetaTypes(n) == IF n = 1 THEN <<"callout">> ELSE <<"column_list">>

\* the types of the compiled items of a section
ItemTypes(section) == Types(filterValidBlocks(BuildChildren(section.content).list))

\* divider, heading, the description paragraph when it shows, the items
SectionTypes(section) ==
    <<"divider", "heading_1">>
    \o (IF Trim(StrOr(section, "description", <<>>)) # <<>> THEN <<"paragraph">> ELSE <<>>)
    \o ItemTypes(section)

CourseTypes(body) ==
    <<"breadcrumb", "table_of_contents", "divider">>
    \o (IF StrOr(body, "description", <<>>) # <<>> THEN <<"callout">> ELSE <<>>)
    \o (IF MetaCount(body) > 0 THEN MetaTypes(MetaCount(body)) \o <<"divider">> ELSE <<>>)
    \o Concat(Map(body.sections, SectionTypes))
    \o <<"divider", "callout">>

\* C18: the children handed to pages.create are, in this order:
\* breadcrumb, table of contents, divider, the description callout when the
\* description is not empty, then, when at least one of a non-zero time, a
\* non-empty prerequisites list and a non-empty objectives list is there,
\* the metadata block (that callout alone for one, a column list for more)
\* followed by a divider, then for each section in input order a divider,
\* the heading, the description paragraph when the description is not
\* blank and the compiled items in input order, and last a divider and the
\* congratulatory callout.
C18_AssemblyOrder ==
    CourseSubmitted =>
        /\ Types(calls[1].children) = CourseTypes(req.body)
        /\ calls[1].children[Len(calls[1].children)].data.icon = "emoji_party"
        /\ StrOr(req.body, "description", <<>>) # <<>> =>
              calls[1].children[4].data.icon = "emoji_book"

\* several metadata entries, then two sections, the second with a description
C18_Witness ==
    /\ CourseSubmitted
    /\ MetaCount(req.body) > 1
    /\ Len(req.body.sections) = 2
    /\ StrOr(req.body.sections[2], "description", <<>>) = Hi
    /\ ArrOr(req.body.sections[2], "content", <<>>) = NumberedParagraphs(MaxParagraphs)
    /\ Types(calls[1].children) = CourseTypes(req.body)

\* the order as stated: a metadata block whenever one of the three fields
\* is present, a divider after it in every case, a description paragraph
\* whenever the section has a description
StatedSectionTypes(section) ==
    <<"divider", "heading_1">>
    \o (IF Has(section, "description") THEN <<"paragraph">> ELSE <<>>)
    \o ItemTypes(section)

StatedCourseTypes(body) ==
    <<"breadcrumb", "table_of_contents", "divider">>
    \o (IF Has(body, "description") THEN <<"callout">> ELSE <<>>)
    \o (IF MetaGiven(body) > 0 THEN MetaTypes(MetaGiven(body)) ELSE <<>>)
    \o <<"divider">>
    \o Concat(Map(body.sections, StatedSectionTypes))
    \o <<"divider", "callout">>

\* C18 as stated.
C18_Original ==
    CourseSubmitted => Types(calls[1].children) = StatedCourseTypes(req.body)

\* the block and the blocks under it, level after level, are all there
RECURSIVE DeepValid(_)
DeepValid(block) ==
    /\ block # Null
    /\ block # Undefined
    /\ Has(block.data, "children") =>
          \A i \in 1..Len(block.data.children) : DeepValid(block.data.children[i])

CompiledRoutes == {"create-course", "append-content"}

\* C19: no null or undefined entry is in the blocks that create-course
\* and append-content hand to the remote calls, at the top level or in the
\* children of a block at any depth.
C19_NoNullBlocks ==
    req.route \in CompiledRoutes =>
        \A i \in 1..Len(calls) :
            \A k \in 1..Len(calls[i].children) : DeepValid(calls[i].children[k])

\* the nested items were compiled and sent: the blank paragraphs are gone
\* from both toggles and from the top level
C19_Witness ==
    /\ req.route = "append-content"
    /\ Has(req.body, "content")
    /\ req.body.content = NestedContent
    /\ Len(calls) = 1
    /\ Types(calls[1].children) = <<"toggle", "callout", "column_list">>
    /\ Types(calls[1].children[1].data.children)
           = <<"paragraph", "toggle", "bulleted_list_item", "bulleted_list_item">>
    /\ calls[1].children[1].data.children[2].data.children = <<>>

(***************************************************************************)
(* The tokens of parseFormattedText                                        *)
(***************************************************************************)
Parsed == call.fn = "parseFormattedText" /\ Done

\* the candidate tokens in processing order
Candidates == SortTokens(ScanTokens(call.content))

\* the place of a token's pattern in the list of patterns
PatternRank(token) ==
    IF token.link # <<>> THEN 5
    ELSE IF token.style = {"bold"} THEN 1
    ELSE IF token.style = {"italic"} THEN 2
    ELSE IF token.style = {"code"} THEN 3
    ELSE 4

\* ascending starts, and pattern order among equal starts
InProcessingOrder(ts) ==
    \A i \in 1..Len(ts) : \A j \in (i + 1)..Len(ts) :
        \/ ts[i].start < ts[j].start
        \/ ts[i].start = ts[j].start /\ PatternRank(ts[i]) < PatternRank(ts[j])

SameTokens(ts, us) ==
    /\ Len(ts) = Len(us)
    /\ {ts[i] : i \in 1..Len(ts)} = {us[i] : i \in 1..Len(us)}

\* the end of the last accepted token among the first k, 0 when there is none
RECURSIVE LastAcceptedEnd(_, _)
LastAcceptedEnd(ts, k) ==
    IF k = 0 THEN 0
    ELSE IF ts[k].start < LastAcceptedEnd(ts, k - 1) THEN LastAcceptedEnd(ts, k - 1)
    ELSE ts[k].end

\* the indices of the tokens that are not dropped
AcceptedAt(ts) == {k \in 1..Len(ts) : ts[k].start >= LastAcceptedEnd(ts, k - 1)}

\* the elements of the index set ks, ascending
RECURSIVE Ascending(_)
Ascending(ks) ==
    IF ks = {} THEN <<>> ELSE <<Min(ks)>> \o Ascending(ks \ {Min(ks)})

AcceptedTokens(ts) == [i \in 1..Cardinality(AcceptedAt(ts)) |-> ts[Ascending(AcceptedAt(ts))[i]]]

NoOverlap(as) ==
    \A i \in 1..Len(as) : \A j \in (i + 1)..Len(as) : as[i].end <= as[j].start

\* where the plain text before the i-th accepted token starts
GapStart(as, i) == IF i = 1 THEN 0 ELSE as[i - 1].end

\* the plain run before the i-th accepted token, if any, then its own run
RunsAt(text, as, i) ==
    PlainRun(text, GapStart(as, i), as[i].start)
    \o <<richText(as[i].text, TokenOptions(as[i]))>>

\* the runs in the order of the source text: each accepted token after the
\* plain text that precedes it, then the plain text after the last one
RunsInTextOrder(text, as) ==
    Concat([i \in 1..Len(as) |-> RunsAt(text, as, i)])
    \o PlainRun(text, as[Len(as)].end, Len(text))

\* C21: the candidate tokens of the five patterns are processed by
\* ascending start, ties in pattern order; a token is dropped exactly when
\* it starts before the end of the last accepted one, so the accepted
\* tokens do not overlap and the runs follow the order of the source text.
C21_TokensInOrderNoOverlap ==
    Parsed =>
        /\ SameTokens(Candidates, ScanTokens(call.content))
        /\ InProcessingOrder(Candidates)
        /\ NoOverlap(AcceptedTokens(Candidates))
        /\ Candidates # <<>> => ret.runs = RunsInTextOrder(call.content, AcceptedTokens(Candidates))

\* "**a** and *b*": three candidates, the two emphasis ones dropped
C21_Witness ==
    /\ Parsed
    /\ call.content = StrongAndEmph
    /\ Len(Candidates) = 3
    /\ Candidates[1].start = Candidates[2].start
    /\ AcceptedAt(Candidates) = {1}
    /\ Len(ret.runs) = 2

(***************************************************************************)
(* Calling the text-bearing builders                                       *)
(***************************************************************************)
PlaceholderBuilders ==
    {"heading1", "heading2", "heading3", "callout", "quote", "bulletedListItem",
     "numberedListItem", "todo", "toggle"}

\* raw strings, run lists and segment lists, with and without a text to show
TextContents ==
    {S(<<>>), S(Blank), S(Hi), S(Strong(Blank)), S(Emphasis),
     RT(<<>>), RT(<<SpaceRun>>), RT(<<richText(Hi, NoFields)>>),
     RT(<<SpaceRun, richText(Hi, [bold |-> TRUE])>>),
     Segs(<<>>), Segs(<<[text |-> Blank]>>), Segs(<<[text |-> <<>>]>>),
     Segs(<<[text |-> Hi, bold |-> TRUE]>>),
     Segs(<<[text |-> Blank], [text |-> Hi]>>)}

TextCalls ==
    {[fn |-> b, content |-> c, options |-> o] :
        b \in PlaceholderBuilders \cup {"paragraph"}, c \in TextContents,
        o \in {NoFields, [parseMarkdown |-> FALSE]}}

InitText == call \in TextCalls /\ ret = NotYet /\ ServerIdle

\* the call of the builder fn returns value
Returns(fn, value) ==
    /\ call.fn = fn
    /\ ret = NotYet
    /\ ret' = value
    /\ UNCHANGED <<call, serverVars>>

CallParagraph == Returns("paragraph", paragraph(call.content, call.options))

CallHeading1 == Returns("heading1", heading1(call.content, call.options))

CallHeading2 == Returns("heading2", heading2(call.content, call.options))

CallHeading3 == Returns("heading3", heading3(call.content, call.options))

CallCallout == Returns("callout", callout(call.content, call.options))

CallQuote == Returns("quote", quote(call.content, call.options))

CallBulletedListItem ==
    Returns("bulletedListItem", bulletedListItem(call.content, call.options))

CallNumberedListItem ==
    Returns("numberedListItem", numberedListItem(call.content, call.options))

CallTodo == Returns("todo", todo(call.content, FALSE, call.options))

CallToggle == Returns("toggle", toggle(call.content, <<>>, call.options))

NextText ==
    \/ CallParagraph
    \/ CallHeading1
    \/ CallHeading2
    \/ CallHeading3
    \/ CallCallout
    \/ CallQuote
    \/ CallBulletedListItem
    \/ CallNumberedListItem
    \/ CallTodo
    \/ CallToggle

SpecText == InitText /\ [][NextText]_vars

TextBuilt == call.fn \in PlaceholderBuilders \cup {"paragraph"} /\ Done

\* C22 as stated: paragraph returns null or a block with runs, and the
\* other text-bearing builders always return a block whose run list is not
\* empty.
C22_Original ==
    TextBuilt =>
        /\ ret # Null => Len(ret.data.rich_text) > 0
        /\ call.fn \in PlaceholderBuilders => ret # Null

\* What the builders return: the placeholder run stands in only when the
\* conversion yields null (a blank string, an empty list); a non-empty run
\* list or segment list whose entries are all blank is kept as the empty
\* list it filters to.
PlaceholderOnlyForNull ==
    TextBuilt /\ call.fn \in PlaceholderBuilders =>
        /\ ret # Null
        /\ toRichTextArray(call.content, ParseMarkdown(call.options)) = Null
              => ret.data.rich_text = <<SpaceRun>>
        /\ call.content \in {RT(<<SpaceRun>>), Segs(<<[text |-> Blank]>>),
                             Segs(<<[text |-> <<>>]>>)}
              => ret.data.rich_text = <<>>

(***************************************************************************)
(* Calling the code builder                                                *)
(***************************************************************************)
CodeLengths ==
    {1, MaxRunLen - 1, MaxRunLen, MaxRunLen + 1, MaxCodeLength - 1, MaxCodeLength,
     MaxCodeLength + 1, MaxCodeLength + MaxRunLen}

CodeTexts ==
    {l \o <<W("x", n)>> \o t :
        l \in {<<>>, <<Ch(" ")>>}, n \in CodeLengths, t \in {<<>>, <<Ch(" ")>>, <<Newline>>}}

CodeCalls ==
    {[fn |-> "code", content |-> c, language |-> l, caption |-> cap] :
        c \in CodeTexts, l \in {"javascript", "plain text"}, cap \in {<<>>, Hi}}

InitCode == call \in CodeCalls /\ ret = NotYet /\ ServerIdle

\* code(content, language, caption)
CallCode == Returns("code", code(call.content, call.language, call.caption))

NextCode == CallCode

SpecCode == InitCode /\ [][NextCode]_vars

CodeBuilt == call.fn = "code" /\ Done

EndsWith(s, d) == Len(s) >= Len(d) /\ SubSeq(s, Len(s) - Len(d) + 1, Len(s)) = d

\* C23 as stated: code of at most 50,000 characters (after trimming) is
\* emitted in full, and longer code is cut to a text that ends with the
\* truncation marker.
C23_Original ==
    CodeBuilt =>
        IF StrLen(Trim(call.content)) > MaxCodeLength
        THEN EndsWith(VisibleText(ret), CodeTruncMarker)
        ELSE VisibleText(ret) = Trim(call.content)

\* What the code block holds: the builder hands its text to richText, which
\* cuts everything longer than 2000 characters to 1997 characters and
\* "...", the truncation marker of the builder included.
CodeCutByRichText ==
    CodeBuilt =>
        /\ StrLen(VisibleText(ret)) <= MaxRunLen
        /\ StrLen(Trim(call.content)) > MaxRunLen =>
              VisibleText(ret) = Substring(Trim(call.content), TruncLen) \o Ellipsis
        /\ StrLen(Trim(call.content)) <= MaxRunLen =>
              VisibleText(ret) = Trim(call.content)

(***************************************************************************)
(* Calling the note template                                               *)
(***************************************************************************)
NoteIcons == {"emoji_info", "emoji_warning", "emoji_bulb", "emoji_siren", "emoji_stopwatch"}

\* up to two known icons, each followed or not by a space
IconPrefixes ==
    {<<>>}
    \cup {<<Emoji(a)>> \o sp : a \in NoteIcons, sp \in {<<>>, <<Ch(" ")>>}}
    \cup {<<Emoji(a)>> \o sp \o <<Emoji(b)>> \o sp :
            a \in NoteIcons, b \in NoteIcons, sp \in {<<>>, <<Ch(" ")>>}}

NoteCalls ==
    {[fn |-> "noteImportante", content |-> p \o r, type |-> t] :
        p \in IconPrefixes, r \in {<<>>, Hi}, t \in {"info", "warning", "tip", "danger"}}

InitNote == call \in NoteCalls /\ ret = NotYet /\ ServerIdle

\* noteImportante(content, type)
CallNoteImportante == Returns("noteImportante", noteImportante(call.content, call.type))

NextNote == CallNoteImportante

SpecNote == InitNote /\ [][NextNote]_vars

NoteBuilt == call.fn = "noteImportante" /\ Done

BeginsWithIcon(s) ==
    \E i \in 1..Len(TEMPLATE_EMOJIS) : StartsWith(s, <<Emoji(TEMPLATE_EMOJIS[i])>>)

\* C24 as stated: whatever known icons the content starts with, the text
\* of the callout does not begin with a known icon.
C24_Original == NoteBuilt => ~BeginsWithIcon(VisibleText(ret))

\* the place of the icon in TEMPLATE_EMOJIS
IconRank(e) == CHOOSE i \in 1..Len(TEMPLATE_EMOJIS) : TEMPLATE_EMOJIS[i] = e

\* What the one pass over TEMPLATE_EMOJIS removes: leading icons that come
\* in the order of the list; an icon that follows itself or a later one of
\* the list stays at the head of the text.
OnePassOverIcons ==
    NoteBuilt =>
        \A a \in NoteIcons : \A b \in NoteIcons :
            StartsWith(call.content, <<Emoji(a), Emoji(b)>>) =>
                (BeginsWithIcon(VisibleText(ret)) <=> IconRank(b) <= IconRank(a))

(***************************************************************************)
(* The consecutive-paragraph warning                                       *)
(***************************************************************************)
\* the places where a third or later paragraph in a row stands
RunEnds(content) ==
    {k \in 3..Len(content) :
        \A j \in (k - 2)..k : TypeOf(content[j]) = "paragraph"}

\* the consecutive-paragraph warnings of section idx
ParagraphWarnings(warnings, idx) ==
    SelectSeq(warnings,
              LAMBDA w : w.section = idx /\ w.msg = "paragraphes consecutifs")

\* C25: validateCourse warns about consecutive paragraphs in a section
\* exactly when the section holds three or more paragraph items in a row,
\* once for each paragraph from the third of a run on; a non-paragraph item
\* and the start of a section set the counter back to zero.
C25_ConsecutiveParagraphs ==
    Validated =>
        \A idx \in DOMAIN SectionsOf(call.course) :
            /\ Len(ParagraphWarnings(ret.warnings, idx))
                   = Cardinality(RunEnds(ContentOf(SectionsOf(call.course)[idx])))
            /\ \A i \in 1..Len(ParagraphWarnings(ret.warnings, idx)) :
                   ParagraphWarnings(ret.warnings, idx)[i].n >= 3

\* two paragraphs, a quiz, three paragraphs: one warning, for the last;
\* and one paragraph then two in the next section: none
C25_Witness ==
    /\ Validated
    /\ Len(SectionsOf(call.course)) = 2
    /\ SectionsOf(call.course)[1] = GoodSection
    /\ ContentOf(SectionsOf(call.course)[2]) = Paragraphs(2) \o <<GoodQuiz>> \o Paragraphs(3)
    /\ Len(ParagraphWarnings(ret.warnings, 2)) = 1
    /\ ParagraphWarnings(ret.warnings, 1) = <<>>

(***************************************************************************)
(* Media items: the validator against the compiler                         *)
(***************************************************************************)
MediaTypes == {"image", "video", "audio", "pdf"}

\* the places <<i, k>> of the items of type t in the sections of the course
MediaItemsAt(body, t) ==
    UNION {{<<i, k>> : k \in {k \in 1..Len(body.sections[i].content) :
                                 /\ body.sections[i].content[k] # Null
                                 /\ TypeOf(body.sections[i].content[k]) = t}} :
           i \in 1..Len(body.sections)}

\* how many of the blocks are of the type t
BlockCount(bs, t) == Cardinality({k \in 1..Len(bs) : bs[k].type = t})

\* the paragraph that stands for a media item whose URL is refused
IsInvalidUrlParagraph(block) ==
    /\ block.type = "paragraph"
    /\ Includes(VisibleText(block), <<Ch(" "), W("invalide", 8), Ch(":")>>)

\* C28 as stated: in a course that validateCourse accepts, every image,
\* video, audio or pdf item compiles to a block of that type and none to
\* the invalid-URL paragraph, also when its url is absent or empty.
C28_Original ==
    CourseSubmitted =>
        /\ \A t \in MediaTypes :
               BlockCount(calls[1].children, t) = Cardinality(MediaItemsAt(req.body, t))
        /\ \A k \in 1..Len(calls[1].children) : ~IsInvalidUrlParagraph(calls[1].children[k])

HasUrl(body, at) == StrOr(body.sections[at[1]].content[at[2]], "url", <<>>) # <<>>

\* What holds: the two agree on the media items that carry a URL; an item
\* without one passes the validator and compiles to the paragraph.
MediaWithUrlAgree ==
    CourseSubmitted =>
        \A t \in MediaTypes :
            BlockCount(calls[1].children, t)
                = Cardinality({at \in MediaItemsAt(req.body, t) : HasUrl(req.body, at)})

(***************************************************************************)
(* The compilation of a course without the validation before it            *)
(***************************************************************************)
CompileBodies == {b \in CreateBodies : Has(b, "sections")}

InitCompile ==
    /\ call \in {[fn |-> "compileCourse", body |-> b] : b \in CompileBodies}
    /\ ret = NotYet
    /\ ServerIdle

\* the children built by the create-course handler for the body
CompileCourse == Returns("compileCourse", CourseChildren(call.body))

NextCompile == CompileCourse

SpecCompile == InitCompile /\ [][NextCompile]_vars

Compiled == call.fn = "compileCourse" /\ Done

\* the items of the section, when it has any, compile without an exception
SoundContent(section) ==
    /\ section # Null
    /\ Has(section, "content") => ~IsThrow(BuildChildren(section.content))

SoundItems(body) == \A i \in 1..Len(body.sections) : SoundContent(body.sections[i])

Complete(section) == Has(section, "content")

\* the blocks of the sections that have a content list, in the scaffolding
BestEffortTypes(body) ==
    <<"breadcrumb", "table_of_contents", "divider">>
    \o (IF StrOr(body, "description", <<>>) # <<>> THEN <<"callout">> ELSE <<>>)
    \o (IF MetaCount(body) > 0 THEN MetaTypes(MetaCount(body)) \o <<"divider">> ELSE <<>>)
    \o Concat(Map(SelectSeq(body.sections, Complete), SectionTypes))
    \o <<"divider", "callout">>

\* the types of the blocks compiled, none when the compilation threw
CompiledTypes(result) == IF IsThrow(result) THEN <<>> ELSE Types(result.list)

\* the blocks bs[i..] hold the types ts in this order, others between them
RECURSIVE HoldsInOrder(_, _)
HoldsInOrder(bs, ts) ==
    IF ts = <<>> THEN TRUE
    ELSE IF bs = <<>> THEN FALSE
    ELSE IF Head(bs) = Head(ts) THEN HoldsInOrder(Tail(bs), Tail(ts))
    ELSE HoldsInOrder(Tail(bs), ts)

\* C27 as stated: a course with a section that has no title or no content
\* list compiles without an exception, to a sequence that holds the
\* scaffolding and the blocks of every other section.
C27_Original ==
    Compiled /\ SoundItems(call.body) =>
        /\ ~IsThrow(ret)
        /\ HoldsInOrder(CompiledTypes(ret), BestEffortTypes(call.body))

\* What holds: a missing title is tolerated, the heading showing the
\* placeholder; a missing content list makes the section loop throw.
MissingTitleTolerated ==
    Compiled /\ SoundItems(call.body) =>
        IF \A i \in 1..Len(call.body.sections) : Complete(call.body.sections[i])
        THEN ~IsThrow(ret) /\ Types(ret.list) = CourseTypes(call.body)
        ELSE ret = Throw("TypeError: section.content is not iterable")

(***************************************************************************)
(* Dry-run: no remote call, generation errors kept per item                *)
(***************************************************************************)
DryRunDone == req.route = "dry-run" /\ pc = "done"

Analysed == responses[Len(responses)]

\* the items of the request whose builder throws
ThrowingItems(sections) ==
    {k \in 1..Len(DryItems(sections)) : IsThrow(buildCourseBlock(DryItems(sections)[k]))}

\* the errors of the analysis that report a failed generation
GenerationReports(errors) ==
    {e \in 1..Len(errors) : errors[e].msg = "Erreur generation bloc"}

\* the blocks the builders that do not throw return
GeneratedBy(items) ==
    SumSeq([k \in 1..Len(items) |-> GeneratedCount(buildCourseBlock(items[k]))])

\* every section is visited to its end
Visited(sections) == \A i \in 1..Len(sections) : SectionAbort(sections[i]) = Null

\* C26: a dry-run request issues no remote call; when the builder of an item
\* throws, the analysis carries one generation error for that item, is not
\* valid, and still counts every item of every section and the blocks of the
\* items that were generated.
C26_DryRunKeepsAnalysing ==
    DryRunDone =>
        /\ calls = <<>>
        /\ inflight = {}
        /\ Visited(DrySections(req.body)) =>
              /\ Analysed.status = 200
              /\ Cardinality(GenerationReports(Analysed.errors))
                    = Cardinality(ThrowingItems(DrySections(req.body)))
              /\ ThrowingItems(DrySections(req.body)) # {} => ~Analysed.valid
              /\ Analysed.stats.sections = Len(DrySections(req.body))
              /\ Analysed.stats.totalBlocks = Len(DryItems(DrySections(req.body)))
              /\ Analysed.generatedBlocks = GeneratedBy(DryItems(DrySections(req.body)))

\* a dry-run of two sections, the first with a builder that throws ahead of
\* two items that are generated
C26_Witness ==
    /\ DryRunDone
    /\ Len(DrySections(req.body)) = 2
    /\ Visited(DrySections(req.body))
    /\ 1 \in ThrowingItems(DrySections(req.body))
    /\ Analysed.stats.totalBlocks > 3
    /\ Analysed.generatedBlocks >= 3

(***************************************************************************)
(* Dry-run against validateCourse                                          *)
(***************************************************************************)
\* validateCourse reports at least one error for the course
Rejected(course) ==
    /\ ~IsThrow(validateCourse(course))
    /\ ~validateCourse(course).valid

\* C29 as stated: whenever validateCourse reports an error for the course
\* of a dry-run request, the analysis answers valid = false.
C29_Original == DryRunDone /\ Rejected(req.body) => ~Analysed.valid

(***************************************************************************)
(* NotionAPI.getPageBlocks: the do-while loop over the pages of a block    *)
(* list.  The remote service answers each request as it likes; it is only  *)
(* kept from announcing more than MaxPages pages.                          *)
(***************************************************************************)
MaxPages == 3

PageCalls == {[fn |-> "getPageBlocks", pageId |-> PageId, client |-> c] : c \in BOOLEAN}

Cursor(c) == [cursor |-> c]

\* next_cursor as the remote may send it: null, empty, or a cursor
NextCursors == {Null, Cursor(""), Cursor("a"), Cursor("b")}

ListResults ==
    {<<>>, <<Block("divider", NoFields)>>, <<Block("quote", NoFields)>>,
     <<Block("divider", NoFields), Block("quote", NoFields)>>}

ListResponses ==
    {[results |-> r, has_more |-> h, next_cursor |-> n] :
        r \in ListResults, h \in BOOLEAN, n \in NextCursors}

\* client.blocks.children.list({ block_id, start_cursor, page_size: 100 })
ListCall(pageId, start) ==
    [api |-> "blocks.children.list", target |-> pageId, start_cursor |-> start,
     outcome |-> "pending"]

\* Variant that follows next_cursor whatever has_more says.
NextCursorAlways(response) ==
    IF Has(response.next_cursor, "cursor") /\ response.next_cursor.cursor # ""
    THEN response.next_cursor ELSE Undefined

\* response.has_more ? response.next_cursor || undefined : undefined
NextCursor(response) ==
    IF response.has_more
       /\ Has(response.next_cursor, "cursor") /\ response.next_cursor.cursor # ""
    THEN response.next_cursor ELSE Undefined

\* the remote service answers a list request
RemoteLists ==
    \E i \in inflight, response \in ListResponses :
        /\ calls[i].api = "blocks.children.list"
        /\ Len(calls) >= MaxPages => ~response.has_more /\ response.next_cursor = Null
        /\ calls' = [calls EXCEPT ![i] = [@ EXCEPT !.outcome = "ok"] @@ [response |-> response]]
        /\ inflight' = inflight \ {i}
        /\ settled' = [state |-> "fulfilled", response |-> response]
        /\ UNCHANGED <<blocks, cursor, call, ret, req, pc, chunks, ci, page, responses>>

\* getPageBlocks(pageId) up to its first await
CallGetPageBlocks ==
    /\ call.fn = "getPageBlocks"
    /\ pc = "idle"
    /\ IF ~call.client
       THEN /\ ret' = Throw("Client not initialized")
            /\ pc' = "done"
            /\ UNCHANGED <<calls, inflight, settled>>
       ELSE /\ Issue(ListCall(call.pageId, cursor))
            /\ pc' = "awaiting"
            /\ UNCHANGED ret
    /\ UNCHANGED <<blocks, cursor, call, req, chunks, ci, page, responses>>

\* getPageBlocks from the answer of a request to the next await or the return
ResumeGetPageBlocks ==
    /\ call.fn = "getPageBlocks"
    /\ pc = "awaiting"
    /\ settled.state # "pending"
    /\ IF settled.state = "rejected"
       THEN /\ ret' = Throw(settled.message)
            /\ pc' = "done"
            /\ UNCHANGED <<blocks, cursor, calls, inflight, settled>>
       ELSE /\ blocks' = blocks \o settled.response.results
            /\ cursor' = NextCursor(settled.response)
            /\ IF NextCursor(settled.response) # Undefined
               THEN /\ Issue(ListCall(call.pageId, NextCursor(settled.response)))
                    /\ UNCHANGED <<pc, ret>>
               ELSE /\ ret' = ListOf(blocks \o settled.response.results)
                    /\ pc' = "done"
                    /\ UNCHANGED <<calls, inflight, settled>>
    /\ UNCHANGED <<call, req, chunks, ci, page, responses>>

InitPages == call \in PageCalls /\ ret = NotYet /\ ServerIdle

NextPages ==
    \/ CallGetPageBlocks
    \/ RemoteLists
    \/ RemoteRejects
    \/ ResumeGetPageBlocks

SpecPages == InitPages /\ [][NextPages]_vars

\* the continuation of an await runs once its promise has settled
SpecPagesLive == SpecPages /\ WF_vars(ResumeGetPageBlocks)

\* the request i has been answered
Answered(i) == calls[i].outcome = "ok"

\* the answer to request i announces a further page
Continues(i) ==
    /\ calls[i].response.has_more
    /\ calls[i].response.next_cursor \notin {Null, Cursor("")}

\* the results of the answered requests, in the order of the requests
FetchedResults == Concat([i \in 1..Len(calls) |-> calls[i].response.results])

\* the requests go out one at a time, each from the cursor of the answer before
OneAtATime ==
    /\ Cardinality(inflight) <= 1
    /\ \A i \in 1..Len(calls) :
          /\ i < Len(calls) => Answered(i) /\ Continues(i)
          /\ calls[i].start_cursor
                = IF i = 1 THEN Undefined ELSE calls[i - 1].response.next_cursor

\* the call has returned its list
Returned == call.fn = "getPageBlocks" /\ Done /\ ~IsThrow(ret)

\* the last request has been answered without announcing a further page
LastPageAnswered ==
    /\ call.fn = "getPageBlocks"
    /\ calls # <<>>
    /\ Answered(Len(calls))
    /\ ~Continues(Len(calls))

PagesInOrder ==
    /\ OneAtATime
    /\ Returned => LastPageAnswered /\ ret = ListOf(FetchedResults)

\* C30: getPageBlocks requests the pages one at a time, each request from
\* the cursor of the answer before it, sends no request after an answer
\* with has_more false or without next cursor, and returns the results of
\* all the answers concatenated in the order fetched; once the remote
\* service has given such a last answer, the call ends.
C30_PagesInOrderAndEnds == []PagesInOrder /\ (LastPageAnswered ~> Done)

\* three pages fetched, the second with results, and the list returned
C30_Witness ==
    /\ Returned
    /\ Len(calls) = 3
    /\ Len(calls[1].response.results) = 2
    /\ Len(calls[2].response.results) = 1
    /\ calls[2].start_cursor # calls[3].start_cursor
    /\ Len(ret.list) > 3

====
